---------------------------- MODULE Spec2Model ----------------------------
(***************************************************************************)
(* A model of clawkit's signing engine (src/clawkit/sign_engine.py).       *)
(*                                                                         *)
(* Representation of Python values:                                        *)
(*   - a str or a list of ints is a sequence of naturals (character codes  *)
(*     or byte values), 1-indexed: Python's s[i] is s[i + 1] here;         *)
(*   - a 32-bit quantity (an SM3 word, an entry of _MRC_TABLE) is a pair   *)
(*     <<hi, lo>> of 16-bit halves, value hi * 65536 + lo: TLC's integers  *)
(*     are 32-bit signed and cannot hold 2^32 - 1;                         *)
(*   - a Python loop "for i in range(...)" that threads local state is     *)
(*     ForRange over a step operator.                                      *)
(***************************************************************************)
EXTENDS Integers, Sequences, FiniteSets, TLC

VARIABLES
    pc,       \* position of the caller: "call", ..., "done" or "raised"
    args,     \* the arguments the caller passes (a record)
    out,      \* what the calls made so far returned (or the exception name)
    SM3_IV,   \* the module-level list _SM3_IV
    ab,       \* the fields of the _ABogus instance last constructed
    clock,    \* what int(time.time() * 1000) reads (a BigNat)
    rng,      \* what the random source yields: [jitter, draws]
    mrc_e,    \* the argument e of each call of _mrc made so far
    frames,   \* the local variables of each running call of sign, by thread
    tables,   \* the module-level _MRC_TABLE, _ABOGUS_STR and _XHS_B64_TABLE
    fs,       \* the cookie file: whether it exists, and its bytes
    cm,       \* the _data of each CookieManager constructed so far
    _trending_cache,  \* _legacy._trending_cache: platform -> [ts, data]
    _last_request,    \* _legacy._last_request: platform -> time recorded
    _client_pool,     \* _legacy._client_pool: <<platform, mobile>> -> client
    clients,  \* each httpx.Client object made so far: open or closed
    flock,    \* who holds a lock on the cookie file, and in which mode
    _cookie_cache     \* _legacy._cookie_cache: platform -> cookies

vars == <<pc, args, out, SM3_IV, ab, clock, rng, mrc_e, frames, tables, fs, cm,
          _trending_cache, _last_request, _client_pool, clients, flock,
          _cookie_cache>>

(***************************************************************************)
(* Bounds of the input sets.                                               *)
(***************************************************************************)
\* Fill seeds of the generated SM3 messages: 0..MaxSeed.
MaxSeed == 6
\* Lengths of the RC4 plaintexts: 0..MaxPlainLen.
MaxPlainLen == 5
\* Seeds of the clock and random source of a sign call: 0..MaxDrawSeed.
MaxDrawSeed == 2
\* Lengths of the generated user agents: 0..MaxUaLen.
MaxUaLen == 50
\* Lengths of the byte sequences given to _xhs_b64_encode: 0..MaxCodecLen.
MaxCodecLen == 7
\* Calls made one after another on the same module and signer instance.
MaxCalls == 2

(***************************************************************************)
(* Python's for loop over range(lo, hi + 1), threading the loop's state.   *)
(* The state is evaluated on entry (st = st), so the first half of the     *)
(* iterations is done before the second one starts and the evaluation      *)
(* depth is logarithmic in the number of iterations.  Values used more     *)
(* than once are passed as operator arguments throughout the module, so    *)
(* that each is evaluated once.                                            *)
(***************************************************************************)
RECURSIVE ForRange(_, _, _, _)
ForRange(Step(_, _), st, lo, hi) ==
    IF st = st
    THEN IF lo > hi THEN st
         ELSE IF lo = hi THEN Step(st, lo)
         ELSE ForRange(Step, ForRange(Step, st, lo, (lo + hi) \div 2),
                       ((lo + hi) \div 2) + 1, hi)
    ELSE st

\* "".join(parts) / list concatenation of a sequence of sequences.
Join(parts) ==
    LET Step(acc, i) == acc \o parts[i]
    IN ForRange(Step, <<>>, 1, Len(parts))

(***************************************************************************)
(* Bit operations on naturals (Python's ^, &, | on non-negative ints).     *)
(***************************************************************************)
RECURSIVE XorBits(_, _)
XorBits(a, b) ==
    IF a = 0 THEN b
    ELSE IF b = 0 THEN a
    ELSE (((a % 2) + (b % 2)) % 2) + 2 * XorBits(a \div 2, b \div 2)

RECURSIVE AndBits(_, _)
AndBits(a, b) ==
    IF a = 0 \/ b = 0 THEN 0
    ELSE ((a % 2) * (b % 2)) + 2 * AndBits(a \div 2, b \div 2)

\* Byte tables of ^ and &, computed once.
XorT == [a \in 1..256 |-> [b \in 1..256 |-> XorBits(a - 1, b - 1)] \o <<>>] \o <<>>
AndT == [a \in 1..256 |-> [b \in 1..256 |-> AndBits(a - 1, b - 1)] \o <<>>] \o <<>>

RECURSIVE BitXor(_, _)
BitXor(a, b) ==
    IF a < 256 /\ b < 256 THEN XorT[a + 1][b + 1]
    ELSE XorT[(a % 256) + 1][(b % 256) + 1] + 256 * BitXor(a \div 256, b \div 256)

RECURSIVE BitAnd(_, _)
BitAnd(a, b) ==
    IF a < 256 /\ b < 256 THEN AndT[a + 1][b + 1]
    ELSE AndT[(a % 256) + 1][(b % 256) + 1] + 256 * BitAnd(a \div 256, b \div 256)

BitOr(a, b) == a + b - BitAnd(a, b)

Pow2(n) == 2 ^ n

(***************************************************************************)
(* 32-bit words as <<hi, lo>>.                                             *)
(***************************************************************************)
\* ^ and & of 16-bit halves, byte by byte
Xor16(a, b) ==
    XorT[(a % 256) + 1][(b % 256) + 1] + 256 * XorT[(a \div 256) + 1][(b \div 256) + 1]
And16(a, b) ==
    AndT[(a % 256) + 1][(b % 256) + 1] + 256 * AndT[(a \div 256) + 1][(b \div 256) + 1]

WXor(a, b) == <<Xor16(a[1], b[1]), Xor16(a[2], b[2])>>
WAnd(a, b) == <<And16(a[1], b[1]), And16(a[2], b[2])>>
WOr(a, b) == <<a[1] + b[1] - And16(a[1], b[1]), a[2] + b[2] - And16(a[2], b[2])>>
\* ~x & 0xFFFFFFFF
WNot(a) == <<65535 - a[1], 65535 - a[2]>>
\* (a + b) & 0xFFFFFFFF
WAdd(a, b) ==
    <<(a[1] + b[1] + ((a[2] + b[2]) \div 65536)) % 65536, (a[2] + b[2]) % 65536>>

\* Rotation of the word h:l left by s < 16 bits.
WRot16(h, l, s) ==
    IF s = 0 THEN <<h, l>>
    ELSE <<((h * Pow2(s)) % 65536) + (l \div Pow2(16 - s)),
           ((l * Pow2(s)) % 65536) + (h \div Pow2(16 - s))>>

\* A shift in place of the rotation: the bits shifted out are lost.
_de_shift_only(e, r) ==
    IF r % 32 < 16
    THEN <<((e[1] * Pow2(r % 32)) % 65536) + (e[2] \div Pow2(16 - (r % 32))),
           (e[2] * Pow2(r % 32)) % 65536>>
    ELSE <<(e[2] * Pow2((r % 32) - 16)) % 65536, 0>>

\* def _de(e, r): r %= 32; return ((e << r) & 0xFFFFFFFF) | (e >> (32 - r))
_de(e, r) ==
    IF r % 32 < 16 THEN WRot16(e[1], e[2], r % 32) ELSE WRot16(e[2], e[1], (r % 32) - 16)

(***************************************************************************)
(* SM3.                                                                    *)
(***************************************************************************)
\* _SM3_IV = [1937774191, 1226093241, 388252375, 3666478592,
\*            2842636476, 372324522, 3817729613, 2969243214]
_SM3_IV ==
    << <<29568, 5743>>, <<18708, 45753>>, <<5924, 17111>>, <<55946, 1536>>,
       <<43375, 12476>>, <<5681, 14506>>, <<58253, 61005>>, <<45307, 3662>> >>

\* tj = 2043430169 if o < 16 else 2055708042
_sm3_tj(o) == IF o < 16 THEN <<31180, 17689>> ELSE <<31367, 40330>>

\* w[t] = (block[4t] << 24 | block[4t+1] << 16 | block[4t+2] << 8 | block[4t+3])
_sm3_word(block, t) ==
    <<block[4 * t + 1] * 256 + block[4 * t + 2],
      block[4 * t + 3] * 256 + block[4 * t + 4]>>

\* The message expansion of _sm3_compress: the list w of 132 words.
_sm3_expand(block) ==
    LET A1(a) == WXor(WXor(a, _de(a, 15)), _de(a, 23))
        Step1(w, t) ==
            Append(w, WXor(WXor(A1(WXor(WXor(w[t - 16 + 1], w[t - 9 + 1]),
                                        _de(w[t - 3 + 1], 15))),
                                _de(w[t - 13 + 1], 7)),
                           w[t - 6 + 1]))
        Step2(w, t) == Append(w, WXor(w[t - 68 + 1], w[t - 64 + 1]))
    IN ForRange(Step2,
                ForRange(Step1, [t \in 1..16 |-> _sm3_word(block, t - 1)] \o <<>>, 16, 67),
                68, 131)

\* One round o of the compression loop on the register copy v.
_sm3_round(w, v, o) ==
    LET FF(x, y, z) ==
            IF o < 16 THEN WXor(WXor(x, y), z)
            ELSE WOr(WOr(WAnd(x, y), WAnd(x, z)), WAnd(y, z))
        GG(x, y, z) ==
            IF o < 16 THEN WXor(WXor(x, y), z)
            ELSE WOr(WAnd(x, y), WAnd(WNot(x), z))
        V(u, b) ==
            <<u, v[1], _de(v[2], 9), v[3],
              WXor(WXor(b, _de(b, 9)), _de(b, 17)), v[5], _de(v[6], 19), v[7]>>
        UB(c, s) ==
            V(WAdd(WAdd(WAdd(FF(v[1], v[2], v[3]), v[4]), s), w[o + 68 + 1]),
              WAdd(WAdd(WAdd(GG(v[5], v[6], v[7]), v[8]), c), w[o + 1]))
        S(c) == UB(c, WXor(c, _de(v[1], 12)))
    IN S(_de(WAdd(WAdd(_de(v[1], 12), v[5]), _de(_sm3_tj(o), o)), 7))

\* def _sm3_compress(reg, block): the new register (a new list)
_sm3_compress(reg, block) ==
    LET Rounds(w) ==
            LET Step(v, o) == _sm3_round(w, v, o)
            IN ForRange(Step, reg, 0, 63)
        Mix(v) == [i \in 1..8 |-> WXor(reg[i], v[i])] \o <<>>
    IN Mix(Rounds(_sm3_expand(block)))

\* chunks = [b[i:i + 64] for i in range(0, len(b), 64)]; if not chunks: [[]]
_sm3_chunks(b) ==
    IF Len(b) = 0 THEN << <<>> >>
    ELSE [k \in 1..((Len(b) + 63) \div 64) |->
             SubSeq(b, 64 * (k - 1) + 1, IF 64 * k < Len(b) THEN 64 * k ELSE Len(b))] \o <<>>

\* Zero bytes up to 60 modulo 64, as for a length of four bytes.
_sm3_zeros_to60(n) == [i \in 1..((60 - n) % 64) |-> 0] \o <<>>

\* Zero bytes appended by "while len(last) % 64 != 56: last.append(0)".
_sm3_zeros(n) == [i \in 1..((56 - n) % 64) |-> 0] \o <<>>

\* The 8 bytes of bit_len = 8 * size, big-endian.  8 * size < 2^31 here, so
\* the four high bytes are 0.
_sm3_bitlen(size) ==
    <<0, 0, 0, 0, ((8 * size) \div 16777216) % 256, ((8 * size) \div 65536) % 256,
      ((8 * size) \div 256) % 256, (8 * size) % 256>>

\* The last chunk after padding (lines 60-67).
_sm3_last(b) ==
    LET Pad(last) == last \o _sm3_zeros(Len(last)) \o _sm3_bitlen(Len(b))
        Last(chunks) == Pad(Append(chunks[Len(chunks)], 128))
    IN Last(_sm3_chunks(b))

\* The register after the loops of lines 57-58 and 69-70, starting from iv.
_sm3_reg(iv, b) ==
    LET Loops(chunks, last) ==
            LET Step1(reg, k) == _sm3_compress(reg, chunks[k])
                Step2(reg, k) == _sm3_compress(reg, SubSeq(last, 64 * (k - 1) + 1, 64 * k))
            IN ForRange(Step2, ForRange(Step1, iv, 1, Len(chunks) - 1), 1, Len(last) \div 64)
    IN Loops(_sm3_chunks(b), _sm3_last(b))

\* for v in reg: for shift in (24, 16, 8, 0): result.append((v >> shift) & 255)
_sm3_bytes(reg) ==
    [i \in 1..32 |->
        CASE (i - 1) % 4 = 0 -> reg[((i - 1) \div 4) + 1][1] \div 256
          [] (i - 1) % 4 = 1 -> reg[((i - 1) \div 4) + 1][1] % 256
          [] (i - 1) % 4 = 2 -> reg[((i - 1) \div 4) + 1][2] \div 256
          [] (i - 1) % 4 = 3 -> reg[((i - 1) \div 4) + 1][2] % 256] \o <<>>

\* def _sm3_hash(data) -> list[int], with _SM3_IV read as iv
_sm3_hash(iv, data) == _sm3_bytes(_sm3_reg(iv, data))

\* A hash call that leaves the module-level list changed.
_sm3_hash_iv_changed(iv) == Tail(iv) \o <<Head(iv)>>

\* The module-level _SM3_IV after a call of _sm3_hash: "reg = _SM3_IV[:]"
\* copies the list and _sm3_compress builds new lists, so it is untouched.
_sm3_hash_iv(iv) == iv

(***************************************************************************)
(* What a call yields: a returned value or a raised exception.             *)
(***************************************************************************)
Ret(v) == [exc |-> "None", val |-> v]
Raise(e) == [exc |-> e, val |-> <<>>]
Returned(r) == r.exc = "None"

(***************************************************************************)
(* RC4.                                                                    *)
(***************************************************************************)
\* Lines 93-95: one iteration i of the key schedule on <<s, j>>.
_rc4_ksa(key, st, i) ==
    LET Swap(s, j) == <<[s EXCEPT ![i + 1] = s[j + 1], ![j + 1] = s[i + 1]], j>>
    IN Swap(st[1], (st[2] + st[1][i + 1] + key[(i % Len(key)) + 1]) % 256)

\* The output character with (keystream + plaintext) % 256 in place of ^.
_rc4_prga_add(plaintext, st, k) ==
    LET Out(s, i, j) ==
            [s |-> s, i |-> i, j |-> j,
             cipher |-> Append(st.cipher,
                               (s[((s[i + 1] + s[j + 1]) % 256) + 1] + plaintext[k + 1]) % 256)]
        Swap(i, j) == Out([st.s EXCEPT ![i + 1] = st.s[j + 1], ![j + 1] = st.s[i + 1]], i, j)
        J(i) == Swap(i, (st.j + st.s[i + 1]) % 256)
    IN J((st.i + 1) % 256)

\* Lines 98-102: one iteration k of the generation loop on [s, i, j, cipher].
_rc4_prga(plaintext, st, k) ==
    LET Out(s, i, j) ==
            [s |-> s, i |-> i, j |-> j,
             cipher |-> Append(st.cipher,
                               BitXor(s[((s[i + 1] + s[j + 1]) % 256) + 1], plaintext[k + 1]))]
        Swap(i, j) == Out([st.s EXCEPT ![i + 1] = st.s[j + 1], ![j + 1] = st.s[i + 1]], i, j)
        J(i) == Swap(i, (st.j + st.s[i + 1]) % 256)
    IN J((st.i + 1) % 256)

\* def _rc4(plaintext, key) -> str.  "i % len(key)" divides by zero when the
\* key is empty, already in the first iteration of the key schedule.
_rc4(plaintext, key) ==
    LET Ksa(st, i) == _rc4_ksa(key, st, i)
        Prga(st, k) == _rc4_prga(plaintext, st, k)
        Gen(s) == ForRange(Prga, [s |-> s, i |-> 0, j |-> 0, cipher |-> <<>>],
                           0, Len(plaintext) - 1)
    IN IF Len(key) = 0 THEN Raise("ZeroDivisionError")
       ELSE Ret(Gen(ForRange(Ksa, <<[x \in 1..256 |-> x - 1] \o <<>>, 0>>, 0, 255)[1]).cipher)

(***************************************************************************)
(* Python ints that may be negative: [sx, w] is the two's-complement form  *)
(* with low 32 bits w and every higher bit equal to sx, that is the value  *)
(* w - sx * 2^32 in -2^32 .. 2^32 - 1.                                     *)
(***************************************************************************)
PyInt(w) == [sx |-> 0, w |-> w]
\* -1
PyMinusOne == [sx |-> 1, w |-> <<65535, 65535>>]
\* a ^ b
PyXor(a, b) == [sx |-> (a.sx + b.sx) % 2, w |-> WXor(a.w, b.w)]
\* -2^31 <= a <= 2^31 - 1: the bits from 31 upwards are all equal.
PyIsInt32(a) == (a.w[1] \div 32768) = a.sx

(***************************************************************************)
(* The CRC32 variant _mrc.                                                 *)
(***************************************************************************)
_MRC_TABLE ==
<<
    <<0, 0>>, <<30471, 12438>>, <<60942, 24876>>, <<39177, 20922>>,
    <<1901, 50201>>, <<28778, 62607>>, <<59747, 42293>>, <<40548, 38307>>,
    <<3803, 34866>>, <<31196, 47268>>, <<57557, 59678>>, <<38866, 55688>>,
    <<2486, 19499>>, <<32433, 31933>>, <<59320, 11527>>, <<37055, 7569>>,
    <<7607, 4196>>, <<27312, 8434>>, <<62393, 29000>>, <<33982, 16862>>,
    <<6874, 54397>>, <<28125, 58603>>, <<62676, 46417>>, <<33747, 34247>>,
    <<4972, 38998>>, <<25707, 43200>>, <<64866, 63866>>, <<35429, 51692>>,
    <<5121, 23631>>, <<25350, 27865>>, <<64015, 15715>>, <<36104, 3573>>,
    <<15214, 8392>>, <<19561, 4190>>, <<54624, 16868>>, <<41575, 29042>>,
    <<15363, 58577>>, <<19204, 54343>>, <<53773, 34301>>, <<42250, 46443>>,
    <<13749, 43258>>, <<17074, 39020>>, <<56251, 51670>>, <<44220, 63808>>,
    <<13016, 27875>>, <<17887, 23669>>, <<56534, 3535>>, <<43985, 15705>>,
    <<9945, 12460>>, <<20958, 58>>, <<51415, 20864>>, <<49104, 24854>>,
    <<8628, 62645>>, <<22195, 50211>>, <<53178, 38297>>, <<47293, 42255>>,
    <<10242, 47262>>, <<24325, 34824>>, <<50700, 55730>>, <<45323, 59684>>,
    <<12143, 31879>>, <<22632, 19473>>, <<49505, 7595>>, <<46694, 11581>>,
    <<30428, 16784>>, <<475, 28934>>, <<39122, 8380>>, <<61397, 4138>>,
    <<29105, 34185>>, <<1718, 46367>>, <<40895, 58533>>, <<59576, 54323>>,
    <<30727, 51618>>, <<3840, 63796>>, <<38409, 43150>>, <<57614, 38936>>,
    <<32618, 3515>>, <<2157, 15661>>, <<37220, 27799>>, <<58979, 23553>>,
    <<27499, 20980>>, <<7276, 24930>>, <<34149, 12504>>, <<62050, 78>>,
    <<27654, 38381>>, <<6913, 42363>>, <<33288, 62657>>, <<62735, 50263>>,
    <<26032, 55750>>, <<4791, 59728>>, <<35774, 47338>>, <<64697, 34940>>,
    <<25309, 7647>>, <<5594, 11593>>, <<36051, 31987>>, <<64468, 19557>>,
    <<19890, 24920>>, <<15029, 20942>>, <<41916, 116>>, <<54459, 12514>>,
    <<19167, 42305>>, <<15832, 38359>>, <<42193, 50285>>, <<54230, 62715>>,
    <<17257, 59754>>, <<13422, 55804>>, <<44391, 34886>>, <<55904, 47312>>,
    <<17412, 11635>>, <<13059, 7653>>, <<43530, 19551>>, <<56589, 31945>>,
    <<20485, 28988>>, <<9986, 16810>>, <<48651, 4112>>, <<51468, 8326>>,
    <<22376, 46373>>, <<8303, 34227>>, <<47462, 54281>>, <<52833, 58527>>,
    <<24286, 63758>>, <<10713, 51608>>, <<45264, 38946>>, <<51159, 43188>>,
    <<22963, 15639>>, <<11956, 3457>>, <<47037, 23611>>, <<49338, 27821>>,
    <<60856, 33568>>, <<39615, 46006>>, <<950, 57868>>, <<29873, 53914>>,
    <<60117, 18233>>, <<40402, 30639>>, <<1243, 9749>>, <<29660, 5763>>,
    <<58211, 2834>>, <<37988, 15236>>, <<3437, 27198>>, <<31338, 23208>>,
    <<58382, 53003>>, <<37641, 65437>>, <<2560, 44583>>, <<32007, 40625>>,
    <<61455, 37700>>, <<34568, 41938>>, <<7681, 62056>>, <<26886, 49918>>,
    <<63330, 22365>>, <<32869, 26571>>, <<6508, 13937>>, <<28267, 1767>>,
    <<65236, 7030>>, <<35283, 11232>>, <<4314, 31322>>, <<26589, 19148>>,
    <<63929, 57199>>, <<36542, 61433>>, <<6071, 48707>>, <<24752, 36565>>,
    <<54998, 41960>>, <<41425, 37758>>, <<14552, 49860>>, <<20447, 62034>>,
    <<53691, 26609>>, <<42684, 22375>>, <<16309, 1757>>, <<18610, 13899>>,
    <<55309, 11226>>, <<44810, 6988>>, <<13827, 19190>>, <<16644, 31328>>,
    <<57184, 61379>>, <<43111, 57173>>, <<12654, 36591>>, <<18025, 48761>>,
    <<52065, 45964>>, <<48230, 33562>>, <<9583, 53920>>, <<21096, 57910>>,
    <<52236, 30613>>, <<47883, 18179>>, <<8706, 5817>>, <<21765, 9775>>,
    <<50618, 15294>>, <<45757, 2856>>, <<11188, 23186>>, <<23731, 27140>>,
    <<49879, 65447>>, <<46544, 53041>>, <<11481, 40587>>, <<23518, 44573>>,
    <<39780, 49840>>, <<60515, 61990>>, <<30058, 41884>>, <<621, 37642>>,
    <<39945, 1705>>, <<60174, 13887>>, <<29191, 26501>>, <<1280, 22291>>,
    <<38335, 19074>>, <<58040, 31252>>, <<31665, 11182>>, <<3254, 6968>>,
    <<37586, 36507>>, <<58837, 48653>>, <<31964, 61367>>, <<3035, 57121>>,
    <<34515, 53972>>, <<61908, 57922>>, <<26845, 46072>>, <<8154, 33646>>,
    <<33214, 5837>>, <<63161, 9819>>, <<28592, 30689>>, <<6327, 18295>>,
    <<34824, 23270>>, <<65295, 27248>>, <<26118, 15306>>, <<4353, 2908>>,
    <<36709, 40703>>, <<63586, 44649>>, <<24939, 65491>>, <<5740, 53061>>,
    <<40970, 57976>>, <<55053, 53998>>, <<19972, 33620>>, <<14595, 46018>>,
    <<42855, 9825>>, <<53344, 5879>>, <<18793, 18253>>, <<15982, 30683>>,
    <<44753, 27210>>, <<55766, 23260>>, <<16607, 2918>>, <<14296, 15344>>,
    <<43452, 44627>>, <<57019, 40645>>, <<18354, 53119>>, <<12469, 65513>>,
    <<48573, 61980>>, <<51898, 49802>>, <<21427, 37680>>, <<9396, 41894>>,
    <<47824, 13829>>, <<52695, 1683>>, <<21726, 22313>>, <<9177, 26559>>,
    <<45926, 31278>>, <<50273, 19128>>, <<23912, 6914>>, <<10863, 11156>>,
    <<46091, 48695>>, <<49932, 36513>>, <<23045, 57115>>, <<11522, 61325>> >>

\* def _rws(num, bit=0): val = ctypes.c_uint32(num).value >> bit (bit < 16);
\* return (val + 2^32) % 2^33 - 2^32.  c is bit 32 of val + 2^32 reduced
\* modulo 2^33.
_rws(num, bit) ==
    LET val == <<num.w[1] \div Pow2(bit),
                 ((num.w[1] % Pow2(bit)) * Pow2(16 - bit)) + (num.w[2] \div Pow2(bit))>>
        c == (0 + 1) % 2
    IN [sx |-> 1 - c, w |-> val]

\* Line 350: o = _MRC_TABLE[(o & 255) ^ ord(e[n])] ^ _rws(o, 8), on [exc, o].
_mrc_step(e, st, n) ==
    IF st.exc # "None" THEN st
    ELSE IF n >= Len(e) THEN [exc |-> "IndexError", o |-> st.o]
    ELSE LET idx == BitXor(st.o.w[2] % 256, e[n + 1])
         IN IF idx > 255 THEN [exc |-> "IndexError", o |-> st.o]
            ELSE [exc |-> "None", o |-> PyXor(PyInt(_MRC_TABLE[idx + 1]), _rws(st.o, 8))]

\* Lines 344-350: o = -1; for n in range(57): ...
_mrc_loop(e) ==
    LET Step(st, n) == _mrc_step(e, st, n)
    IN ForRange(Step, [exc |-> "None", o |-> PyMinusOne], 0, 56)

\* The return value without "^ -1".
_mrc_final_no_neg(o) == PyXor(o, PyInt(<<60856, 33568>>))

\* Line 351: return o ^ -1 ^ 3988292384   (3988292384 = 0xEDB88320)
_mrc_final(o) == PyXor(PyXor(o, PyMinusOne), PyInt(<<60856, 33568>>))

\* def _mrc(e: str) -> int
_mrc(e) ==
    LET st == _mrc_loop(e)
    IN IF st.exc # "None" THEN Raise(st.exc) ELSE Ret(_mrc_final(st.o))

(***************************************************************************)
(* The fixed-length encoder _xhs_h.                                        *)
(***************************************************************************)
\* d = "A4NjFqYu5wPHsO0XTdDgMa2r1ZQocVte9UJBvk6/7=yRnhISGKblCWi+LpfE8xzm3"
_xhs_h_d ==
    << 65, 52, 78, 106, 70, 113, 89, 117, 53, 119, 80, 72, 115, 79, 48, 88,
       84, 100, 68, 103, 77, 97, 50, 114, 49, 90, 81, 111, 99, 86, 116, 101,
       57, 85, 74, 66, 118, 107, 54, 47, 55, 61, 121, 82, 110, 104, 73, 83,
       71, 75, 98, 108, 67, 87, 105, 43, 76, 112, 102, 69, 56, 120, 122, 109,
       51 >>

\* The group's indices with "(o & 3) << 4" written "o << 4".
_xhs_h_group_nomask(n, i) ==
    IF i >= Len(n) \/ (i + 1 < 32 /\ i + 1 >= Len(n)) \/ (i + 2 < 32 /\ i + 2 >= Len(n))
    THEN Raise("IndexError")
    ELSE LET o == n[i + 1]
             g == IF i + 1 < 32 THEN n[i + 2] ELSE 0
             h == IF i + 2 < 32 THEN n[i + 3] ELSE 0
             x == BitOr(o * 16, g \div 16)
             p0 == BitOr(BitAnd(15, g) * 4, h \div 64)
             v == o \div 4
             b0 == IF h # 0 THEN BitAnd(h, 63) ELSE 64
         IN Ret(IF g = 0 THEN <<v, x, 64, 64>> ELSE <<v, x, p0, b0>>)

\* Lines 359-367: the four alphabet indices <<v, x, p, b>> of the group at i.
_xhs_h_group(n, i) ==
    IF i >= Len(n) \/ (i + 1 < 32 /\ i + 1 >= Len(n)) \/ (i + 2 < 32 /\ i + 2 >= Len(n))
    THEN Raise("IndexError")
    ELSE LET o == n[i + 1]
             g == IF i + 1 < 32 THEN n[i + 2] ELSE 0
             h == IF i + 2 < 32 THEN n[i + 3] ELSE 0
             x == BitOr(BitAnd(o, 3) * 16, g \div 16)
             p0 == BitOr(BitAnd(15, g) * 4, h \div 64)
             v == o \div 4
             b0 == IF h # 0 THEN BitAnd(h, 63) ELSE 64
         IN Ret(IF g = 0 THEN <<v, x, 64, 64>> ELSE <<v, x, p0, b0>>)

\* Line 368 on [exc, m]: m += d[v] + d[x] + d[p] + d[b]
_xhs_h_step(n, st, k) ==
    IF st.exc # "None" THEN st
    ELSE LET grp == _xhs_h_group(n, 3 * k)
         IN IF ~Returned(grp) THEN [exc |-> grp.exc, m |-> st.m]
            ELSE IF \E q \in 1..4 : grp.val[q] >= Len(_xhs_h_d)
            THEN [exc |-> "IndexError", m |-> st.m]
            ELSE [exc |-> "None",
                  m |-> st.m \o [q \in 1..4 |-> _xhs_h_d[grp.val[q] + 1]]]

\* def _xhs_h(n: str) -> str: for i in range(0, 32, 3), i = 3k for k in 0..10
_xhs_h(n) ==
    LET Step(st, k) == _xhs_h_step(n, st, k)
        st == ForRange(Step, [exc |-> "None", m |-> <<>>], 0, 10)
    IN IF st.exc # "None" THEN Raise(st.exc) ELSE Ret(st.m)

(***************************************************************************)
(* Text and time.  A str is a sequence of Unicode scalar values (no lone   *)
(* surrogates); the model's inputs keep character codes below 2^15.        *)
(* A millisecond timestamp is a BigNat: its base-65536 digits, least       *)
(* significant first, without leading zeros (0 is <<>>).                   *)
(***************************************************************************)
\* str.encode("utf-8"), one character
Utf8Char(c) ==
    IF c < 128 THEN <<c>>
    ELSE IF c < 2048 THEN <<192 + (c \div 64), 128 + (c % 64)>>
    ELSE IF c < 65536
    THEN <<224 + (c \div 4096), 128 + ((c \div 64) % 64), 128 + (c % 64)>>
    ELSE <<240 + (c \div 262144), 128 + ((c \div 4096) % 64),
           128 + ((c \div 64) % 64), 128 + (c % 64)>>

\* str.encode("utf-8")
Utf8(s) == Join([i \in 1..Len(s) |-> Utf8Char(s[i])] \o <<>>)

BigLimb(t, i) == IF i <= Len(t) THEN t[i] ELSE 0

RECURSIVE BigAddAt(_, _, _)
BigAddAt(t, n, i) ==
    IF n = 0 THEN t
    ELSE IF i > Len(t) THEN Append(t, n)
    ELSE BigAddAt([t EXCEPT ![i] = (t[i] + n) % 65536], (t[i] + n) \div 65536, i + 1)

\* t + n for a small n
BigAdd(t, n) == BigAddAt(t, n, 1)

\* (t >> (8 * k)) & 255
BigByte(t, k) ==
    LET l == BigLimb(t, (k \div 2) + 1)
    IN IF k % 2 = 0 THEN l % 256 ELSE l \div 256

\* int(t / 256 / 256 / 256 / 256) >> 0: t < 2^53 divides exactly, and the
\* model's clocks are below 2^47, so the quotient is the third digit.
BigShr32(t) == BigLimb(t, 3) + 65536 * BigLimb(t, 4)

RECURSIVE BigNorm(_)
BigNorm(t) ==
    IF Len(t) > 0 /\ t[Len(t)] = 0 THEN BigNorm(SubSeq(t, 1, Len(t) - 1)) ELSE t

\* divmod(t, 10): [q, r]
BigDivMod10(t) ==
    LET Step(st, k) ==
            [q |-> [st.q EXCEPT ![Len(t) - k] = (st.r * 65536 + t[Len(t) - k]) \div 10],
             r |-> (st.r * 65536 + t[Len(t) - k]) % 10]
        Norm(st) == [q |-> BigNorm(st.q), r |-> st.r]
    IN Norm(ForRange(Step, [q |-> t, r |-> 0], 0, Len(t) - 1))

RECURSIVE BigStrRec(_, _)
BigStrRec(t, acc) ==
    LET Rec(dm) == BigStrRec(dm.q, <<48 + dm.r>> \o acc)
    IN IF Len(t) = 0 THEN acc ELSE Rec(BigDivMod10(t))

\* str(t)
BigStr(t) == IF Len(t) = 0 THEN <<48>> ELSE BigStrRec(t, <<>>)

(***************************************************************************)
(* The ABogus encoder _custom_b64 and the magic block.                     *)
(***************************************************************************)
_ABOGUS_STR ==
    [s0 |->
    << 65, 66, 67, 68, 69, 70, 71, 72, 73, 74, 75, 76, 77, 78, 79, 80,
       81, 82, 83, 84, 85, 86, 87, 88, 89, 90, 97, 98, 99, 100, 101, 102,
       103, 104, 105, 106, 107, 108, 109, 110, 111, 112, 113, 114, 115, 116, 117, 118,
       119, 120, 121, 122, 48, 49, 50, 51, 52, 53, 54, 55, 56, 57, 43, 47,
       61 >>,
     s1 |->
    << 68, 107, 100, 112, 103, 104, 52, 90, 75, 115, 81, 66, 56, 48, 47, 77,
       102, 118, 119, 51, 54, 88, 73, 49, 82, 50, 53, 43, 87, 85, 65, 108,
       69, 105, 55, 78, 76, 98, 111, 113, 89, 84, 79, 80, 117, 122, 109, 70,
       106, 74, 110, 114, 121, 120, 57, 72, 86, 71, 99, 97, 83, 116, 67, 101,
       61 >>,
     s2 |->
    << 68, 107, 100, 112, 103, 104, 52, 90, 75, 115, 81, 66, 56, 48, 47, 77,
       102, 118, 119, 51, 54, 88, 73, 49, 82, 50, 53, 45, 87, 85, 65, 108,
       69, 105, 55, 78, 76, 98, 111, 113, 89, 84, 79, 80, 117, 122, 109, 70,
       106, 74, 110, 114, 121, 120, 57, 72, 86, 71, 99, 97, 83, 116, 67, 101,
       61 >>,
     s3 |->
    << 99, 107, 100, 112, 49, 104, 52, 90, 75, 115, 85, 66, 56, 48, 47, 77,
       102, 118, 119, 51, 54, 88, 73, 103, 82, 50, 53, 43, 87, 81, 65, 108,
       69, 105, 55, 78, 76, 98, 111, 113, 89, 84, 79, 80, 117, 122, 109, 70,
       106, 74, 110, 114, 121, 120, 57, 72, 86, 71, 68, 97, 83, 116, 67, 101 >>,
     s4 |->
    << 68, 107, 100, 112, 103, 104, 50, 90, 109, 115, 81, 66, 56, 48, 47, 77,
       102, 118, 86, 51, 54, 88, 73, 49, 82, 52, 53, 45, 87, 85, 65, 108,
       69, 105, 120, 78, 76, 119, 111, 113, 89, 84, 79, 80, 117, 122, 75, 70,
       106, 74, 110, 114, 121, 55, 57, 72, 98, 71, 99, 97, 83, 116, 67, 101 >>]

\* Four characters for every group, the last one included.
_custom_b64_group_full(table, s, i) ==
    LET Chars(n) == [q \in 1..4 |-> table[((n \div Pow2(24 - 6 * q)) % 64) + 1]] \o <<>>
    IN Chars(IF i + 2 < Len(s)
             THEN BitOr(BitOr(s[i + 1] * 65536, s[i + 2] * 256), s[i + 3])
             ELSE IF i + 1 < Len(s)
             THEN BitOr(s[i + 1] * 65536, s[i + 2] * 256)
             ELSE s[i + 1] * 65536)

\* Lines 111-122: the characters appended for the group that starts at i.
_custom_b64_group(table, s, i) ==
    LET \* the loop over (18, 12, 6, 0) breaks at 6 or at 0
        Chars(n, cnt) ==
            [q \in 1..cnt |-> table[((n \div Pow2(24 - 6 * q)) % 64) + 1]] \o <<>>
    IN Chars(IF i + 2 < Len(s)
             THEN BitOr(BitOr(s[i + 1] * 65536, s[i + 2] * 256), s[i + 3])
             ELSE IF i + 1 < Len(s)
             THEN BitOr(s[i + 1] * 65536, s[i + 2] * 256)
             ELSE s[i + 1] * 65536,
             IF i + 1 >= Len(s) THEN 2 ELSE IF i + 2 >= Len(s) THEN 3 ELSE 4)

\* No trailing "=".
_custom_b64_pad_none(r) == r

\* Line 123: r.append("=" * ((4 - len(r) % 4) % 4))
_custom_b64_pad(r) == r \o ([q \in 1..((4 - (Len(r) % 4)) % 4) |-> 61] \o <<>>)

\* def _custom_b64(s: str, table_key: str = "s4") -> str
_custom_b64(s, table_key) ==
    LET Step(r, k) == r \o _custom_b64_group(_ABOGUS_STR[table_key], s, 3 * k)
    IN _custom_b64_pad(ForRange(Step, <<>>, 0, ((Len(s) + 2) \div 3) - 1))

\* def _random_list(a=None, b, c, d, e, f, g), with r = int(random.random() * 10000)
_random_list(r, b, c, d, e, f, g) ==
    LET v(v1, v2) ==
            <<BitOr(BitAnd(v1, b), d), BitOr(BitAnd(v1, c), e),
              BitOr(BitAnd(v2, b), f), BitOr(BitAnd(v2, c), g)>>
    IN v(r % 256, r \div 256)

\* One random value for the three groups.
_gen_string_1_one_draw(draws) ==
    _random_list(draws[1], 170, 85, 1, 2, 5, BitAnd(45, 170))
        \o _random_list(draws[1], 170, 85, 1, 0, 0, 0)
        \o _random_list(draws[1], 170, 85, 1, 0, 5, 0)

\* def _gen_string_1(): each _random_list call draws its own random value
_gen_string_1(draws) ==
    _random_list(draws[1], 170, 85, 1, 2, 5, BitAnd(45, 170))
        \o _random_list(draws[2], 170, 85, 1, 0, 0, 0)
        \o _random_list(draws[3], 170, 85, 1, 0, 5, 0)

(***************************************************************************)
(* The signer _ABogus.                                                     *)
(***************************************************************************)
\* "Mozilla/5.0 (Windows NT 10.0; Win64; x64) AppleWebKit/537.36 (KHTML,
\*  like Gecko) Chrome/131.0.0.0 Safari/537.36"
_DEFAULT_UA ==
    << 77, 111, 122, 105, 108, 108, 97, 47, 53, 46, 48, 32, 40, 87, 105, 110,
       100, 111, 119, 115, 32, 78, 84, 32, 49, 48, 46, 48, 59, 32, 87, 105,
       110, 54, 52, 59, 32, 120, 54, 52, 41, 32, 65, 112, 112, 108, 101, 87,
       101, 98, 75, 105, 116, 47, 53, 51, 55, 46, 51, 54, 32, 40, 75, 72,
       84, 77, 76, 44, 32, 108, 105, 107, 101, 32, 71, 101, 99, 107, 111, 41,
       32, 67, 104, 114, 111, 109, 101, 47, 49, 51, 49, 46, 48, 46, 48, 46,
       48, 32, 83, 97, 102, 97, 114, 105, 47, 53, 51, 55, 46, 51, 54 >>

\* "1536|742|1536|864|0|0|0|0|1536|864|1536|864|1536|742|24|24|Win32"
_DEFAULT_BROWSER ==
    << 49, 53, 51, 54, 124, 55, 52, 50, 124, 49, 53, 51, 54, 124, 56, 54,
       52, 124, 48, 124, 48, 124, 48, 124, 48, 124, 49, 53, 51, 54, 124, 56,
       54, 52, 124, 49, 53, 51, 54, 124, 56, 54, 52, 124, 49, 53, 51, 54,
       124, 55, 52, 50, 124, 50, 52, 124, 50, 52, 124, 87, 105, 110, 51, 50 >>

\* def _sm3_double(data): _sm3_hash(bytes(_sm3_hash(b))), b the bytes of data
_sm3_double(iv, b) == _sm3_hash(_sm3_hash_iv(iv), _sm3_hash(iv, b))

\* _SM3_IV after the two calls of _sm3_double
_sm3_double_iv(iv) == _sm3_hash_iv(_sm3_hash_iv(iv))

\* Lines 171-176 of _ABogus._sm3_sum: the last chunk after padding.
_sm3_sum_last(b) ==
    LET BitLen(last, bit_len) ==
            last \o <<(bit_len \div 16777216) % 256, (bit_len \div 65536) % 256,
                      (bit_len \div 256) % 256, bit_len % 256>>
        Zeros(last) == BitLen(IF Len(last) < 60
                                 THEN last \o ([i \in 1..(60 - Len(last)) |-> 0] \o <<>>)
                                 ELSE last, 8 * Len(b))
        Last(chunks) == Zeros(Append(chunks[Len(chunks)], 128))
    IN Last(_sm3_chunks(b))

\* def _sm3_sum(data: str) -> list[int]; _sm3_compress reads block[0..63]
_sm3_sum(iv, data) ==
    LET Loop(chunks) ==
            LET Step(reg, k) == _sm3_compress(reg, chunks[k])
            IN ForRange(Step, iv, 1, Len(chunks) - 1)
    IN _sm3_bytes(_sm3_compress(Loop(_sm3_chunks(data)), _sm3_sum_last(data)))

\* _SM3_IV after _sm3_sum: "reg = _SM3_IV[:]" copies the list.
_sm3_sum_iv(iv) == iv

\* def __init__(self, user_agent): the fields of the new instance
_ABogus_init(iv, user_agent) ==
    LET Self(ua_rc4) ==
            [constructed |-> TRUE,
             browser |-> _DEFAULT_BROWSER,
             browser_len |-> Len(_DEFAULT_BROWSER),
             browser_code |-> _DEFAULT_BROWSER,
             ua_code |-> _sm3_sum(iv, _custom_b64(ua_rc4, "s3"))]
    IN Self(_rc4(user_agent, <<0, 1, 14>>).val)

\* _SM3_IV after __init__
_ABogus_init_iv(iv) == _sm3_sum_iv(iv)

\* "cus"
Cus == <<99, 117, 115>>

\* Lines 198-210: the list a of 44 elements, from the two hashes
_ABogus_sign_list(self, params_code, method_code, start_time, end_time) ==
    <<44, BigByte(end_time, 3), 0, 0, 0, 0,
      24, params_code[21 + 1], method_code[21 + 1], 0,
      self.ua_code[23 + 1], BigByte(end_time, 2), 0, 0, 0, 1,
      0, 239, params_code[22 + 1], method_code[22 + 1],
      self.ua_code[24 + 1], BigByte(end_time, 1), 0, 0, 0, 0,
      BigByte(end_time, 0), 0, 0, 14,
      BigByte(start_time, 3), BigByte(start_time, 2),
      0, BigByte(start_time, 1), BigByte(start_time, 0),
      3, BigShr32(end_time), 1,
      BigShr32(start_time), 1,
      self.browser_len, 0, 0, 0>>

\* Lines 195-210: params_code, method_code and the list a
_ABogus_sign_a(self, iv, params, method, start_time, end_time) ==
    _ABogus_sign_list(self, _sm3_double(iv, Utf8(params \o Cus)),
                      _sm3_double(_sm3_double_iv(iv), Utf8(method \o Cus)),
                      start_time, end_time)

\* Local variables kept where every running call sees them.
_ABogus_sign_store_shared(fr, i, upd) == [j \in DOMAIN fr |-> upd @@ fr[j]]

\* An assignment to local variables of the call of sign that thread i runs:
\* each call has its own frame.
_ABogus_sign_store(fr, i, upd) == [fr EXCEPT ![i] = upd @@ fr[i]]

\* The checksum taken after a.extend(self.browser_code).
_ABogus_sign_buffer_check_all(self, a) ==
    LET Step(check, i) == BitXor(check, (a \o self.browser_code)[i])
    IN a \o self.browser_code \o <<ForRange(Step, 0, 1, Len(a) + Len(self.browser_code))>>

\* Lines 212-216: a, then browser_code, then check (the XOR of a's elements)
_ABogus_sign_buffer(self, a) ==
    LET Step(check, i) == BitXor(check, a[i])
    IN a \o self.browser_code \o <<ForRange(Step, 0, 1, Len(a))>>

\* def sign(self, params, method="GET") -> str, with start_time read from the
\* clock, randint(4, 8) = jitter and the three random draws
_ABogus_sign(self, iv, params, method, start_time, jitter, draws) ==
    _custom_b64(
        \* string_1
        _gen_string_1(draws)
        \* string_2, with end_time = start_time + randint(4, 8)
        \o _rc4(_ABogus_sign_buffer(self,
                    _ABogus_sign_a(self, iv, params, method,
                                   start_time, BigAdd(start_time, jitter))),
                <<121>>).val,
        "s4")

\* The locals of sign when it returns: a as line 216 leaves it (the list
\* passed to the cipher), string_2, string_1 and the returned string.
_ABogus_sign_frame(self, iv, params, method, start_time, jitter, draws) ==
    LET Frame(a, string_2, string_1) ==
            [start_time |-> start_time, end_time |-> BigAdd(start_time, jitter),
             a |-> a, string_2 |-> string_2, string_1 |-> string_1,
             result |-> _custom_b64(string_1 \o string_2, "s4")]
        Cipher(a) == Frame(a, _rc4(a, <<121>>).val, _gen_string_1(draws))
    IN Cipher(_ABogus_sign_buffer(self,
                  _ABogus_sign_a(self, iv, params, method,
                                 start_time, BigAdd(start_time, jitter))))

\* _SM3_IV after sign
_ABogus_sign_iv(iv) == _sm3_double_iv(_sm3_double_iv(iv))

(***************************************************************************)
(* MD5 (RFC 1321), what hashlib.md5(raw).hexdigest() computes.  Words are  *)
(* <<hi, lo>>; the message words and the digest are little-endian.         *)
(***************************************************************************)
\* floor(abs(sin(i + 1)) * 2^32) for i = 0..63
Md5K ==
    << <<55146, 42104>>, <<59591, 46934>>, <<9248, 28891>>, <<49597, 52974>>,
       <<62844, 4015>>, <<18311, 50730>>, <<43056, 17939>>, <<64838, 38145>>,
       <<27008, 39128>>, <<35652, 63407>>, <<65535, 23473>>, <<35164, 55230>>,
       <<27536, 4386>>, <<64920, 29075>>, <<42617, 17294>>, <<18868, 2081>>,
       <<63006, 9570>>, <<49216, 45888>>, <<9822, 23121>>, <<59830, 51114>>,
       <<54831, 4189>>, <<580, 5203>>, <<55457, 59009>>, <<59347, 64456>>,
       <<8673, 52710>>, <<49975, 2006>>, <<62677, 3463>>, <<17754, 5357>>,
       <<43491, 59653>>, <<64751, 41976>>, <<26479, 729>>, <<36138, 19594>>,
       <<65530, 14658>>, <<34673, 63105>>, <<28061, 24866>>, <<64997, 14348>>,
       <<42174, 59972>>, <<19422, 53161>>, <<63163, 19296>>, <<48831, 48240>>,
       <<10395, 32454>>, <<60065, 10234>>, <<54511, 12421>>, <<1160, 7429>>,
       <<55764, 53305>>, <<59099, 39397>>, <<8098, 31992>>, <<50348, 22117>>,
       <<62505, 8772>>, <<17194, 65431>>, <<43924, 9127>>, <<64659, 41017>>,
       <<25947, 22979>>, <<36620, 52370>>, <<65519, 62589>>, <<34180, 24017>>,
       <<28584, 32335>>, <<65068, 59104>>, <<41729, 17172>>, <<19976, 4513>>,
       <<63315, 32386>>, <<48442, 62005>>, <<10967, 53947>>, <<60294, 54161>> >>

\* The per-round shift amounts.
Md5S ==
    << 7, 12, 17, 22, 7, 12, 17, 22, 7, 12, 17, 22, 7, 12, 17, 22,
       5, 9, 14, 20, 5, 9, 14, 20, 5, 9, 14, 20, 5, 9, 14, 20,
       4, 11, 16, 23, 4, 11, 16, 23, 4, 11, 16, 23, 4, 11, 16, 23,
       6, 10, 15, 21, 6, 10, 15, 21, 6, 10, 15, 21, 6, 10, 15, 21 >>

\* 0x67452301, 0xefcdab89, 0x98badcfe, 0x10325476
Md5Init == << <<26437, 8961>>, <<61389, 43913>>, <<39098, 56574>>, <<4146, 21622>> >>

\* The message after padding: 0x80, zeros up to 56 mod 64, the bit length in
\* 8 bytes, least significant first (lengths below 2^28 bytes).
Md5Pad(b) ==
    b \o <<128>> \o ([i \in 1..((55 - Len(b)) % 64) |-> 0] \o <<>>)
      \o <<(8 * Len(b)) % 256, ((8 * Len(b)) \div 256) % 256,
           ((8 * Len(b)) \div 65536) % 256, ((8 * Len(b)) \div 16777216) % 256,
           0, 0, 0, 0>>

\* Word g of the block that starts at byte off (0-based).
Md5Word(m, off, g) ==
    <<m[off + 4 * g + 3] + 256 * m[off + 4 * g + 4],
      m[off + 4 * g + 1] + 256 * m[off + 4 * g + 2]>>

\* Step i of the main loop on the state <<A, B, C, D>>.
Md5Step(m, off, v, i) ==
    LET F == CASE i < 16 -> WOr(WAnd(v[2], v[3]), WAnd(WNot(v[2]), v[4]))
               [] i < 32 -> WOr(WAnd(v[4], v[2]), WAnd(WNot(v[4]), v[3]))
               [] i < 48 -> WXor(WXor(v[2], v[3]), v[4])
               [] OTHER  -> WXor(v[3], WOr(v[2], WNot(v[4])))
        g == CASE i < 16 -> i
               [] i < 32 -> (5 * i + 1) % 16
               [] i < 48 -> (3 * i + 5) % 16
               [] OTHER  -> (7 * i) % 16
    IN <<v[4],
         WAdd(v[2], _de(WAdd(WAdd(WAdd(F, v[1]), Md5K[i + 1]), Md5Word(m, off, g)),
                        Md5S[i + 1])),
         v[2], v[3]>>

\* One 64-byte block: the state after adding the loop's result.
Md5Block(m, h, k) ==
    LET Step(v, i) == Md5Step(m, 64 * k, v, i)
        Add(v) == [j \in 1..4 |-> WAdd(h[j], v[j])] \o <<>>
    IN Add(ForRange(Step, h, 0, 63))

\* "0123456789abcdef"[x]
HexDigit(x) == IF x < 10 THEN 48 + x ELSE 87 + x

\* hexdigest(): the 16 digest bytes, each state word least significant first
Md5Hex(h) ==
    Join([j \in 1..16 |->
             LET half == h[((j - 1) \div 4) + 1][IF (j - 1) % 4 < 2 THEN 2 ELSE 1]
                 byte == IF (j - 1) % 2 = 0 THEN half % 256 ELSE half \div 256
             IN <<HexDigit(byte \div 16), HexDigit(byte % 16)>>] \o <<>>)

\* hashlib.md5(b).hexdigest()
Md5HexDigest(b) ==
    LET Blocks(m) ==
            LET Step(h, k) == Md5Block(m, h, k)
            IN ForRange(Step, Md5Init, 0, (Len(m) \div 64) - 1)
    IN Md5Hex(Blocks(Md5Pad(b)))

(***************************************************************************)
(* json.dumps, urllib.parse.quote and the Protocol B encoders.             *)
(***************************************************************************)
\* "0123456789ABCDEF"[x]
HexUpper(x) == IF x < 10 THEN 48 + x ELSE 55 + x

\* '\\u{0:04x}'.format(c)
JsonU(c) ==
    <<92, 117, HexDigit(c \div 4096), HexDigit((c \div 256) % 16),
      HexDigit((c \div 16) % 16), HexDigit(c % 16)>>

\* A character written without any escaping.
JsonCharRaw(c, ensure_ascii) == <<c>>

\* One character of a JSON string, as json.dumps escapes it.
JsonChar(c, ensure_ascii) ==
    CASE c = 34 -> <<92, 34>>
      [] c = 92 -> <<92, 92>>
      [] c = 10 -> <<92, 110>>
      [] c = 13 -> <<92, 114>>
      [] c = 9 -> <<92, 116>>
      [] c = 12 -> <<92, 102>>
      [] c = 8 -> <<92, 98>>
      [] c < 32 /\ c \notin {8, 9, 10, 12, 13} -> JsonU(c)
      [] c > 126 /\ c < 65536 /\ ensure_ascii -> JsonU(c)
      [] c >= 65536 /\ ensure_ascii ->
            JsonU(55296 + ((c - 65536) \div 1024)) \o JsonU(56320 + ((c - 65536) % 1024))
      [] OTHER -> <<c>>

\* json.dumps of a str
JsonStr(s, ensure_ascii) ==
    <<34>> \o Join([i \in 1..Len(s) |-> JsonChar(s[i], ensure_ascii)] \o <<>>) \o <<34>>

\* str(a) of a Python int a = a.w - a.sx * 2^32
PyIntStr(a) ==
    IF a.sx = 0 THEN BigStr(BigNorm(<<a.w[2], a.w[1]>>))
    ELSE <<45>> \o BigStr(BigNorm(IF a.w[2] = 0
                                  THEN <<0, (65536 - a.w[1]) % 65536, (65536 - a.w[1]) \div 65536>>
                                  ELSE <<65536 - a.w[2], 65535 - a.w[1]>>))

\* json.dumps of a value: [t |-> "str", v |-> text] or [t |-> "int", v |-> a]
JsonValue(x, ensure_ascii) ==
    IF x.t = "str" THEN JsonStr(x.v, ensure_ascii) ELSE PyIntStr(x.v)

\* json.dumps(d, separators=(',', ':'), ensure_ascii=...) of a dict given as
\* the sequence of its <<key, value>> items
JsonDumps(items, ensure_ascii) ==
    <<123>>
      \o Join([i \in 1..Len(items) |->
                  (IF i > 1 THEN <<44>> ELSE <<>>)
                    \o JsonStr(items[i][1], ensure_ascii) \o <<58>>
                    \o JsonValue(items[i][2], ensure_ascii)] \o <<>>)
      \o <<125>>

\* The characters quote(e, safe="~()*!.'") leaves alone: letters, digits,
\* "_.-~" and the safe ones.
QuoteSafe(c) ==
    \/ c \in 65..90
    \/ c \in 97..122
    \/ c \in 48..57
    \/ c \in {95, 46, 45, 126, 40, 41, 42, 33, 39}

\* urllib.parse.quote(e, safe="~()*!.'")
Quote(e) ==
    Join([i \in 1..Len(e) |->
             IF QuoteSafe(e[i]) THEN <<e[i]>>
             ELSE Join([k \in 1..Len(Utf8Char(e[i])) |->
                           <<37, HexUpper(Utf8Char(e[i])[k] \div 16),
                             HexUpper(Utf8Char(e[i])[k] % 16)>>] \o <<>>)] \o <<>>)

\* quote() encodes with errors="strict": a lone surrogate cannot be encoded
\* and UnicodeEncodeError leaves _encode_utf8.
QuoteRaises(e) == \E i \in 1..Len(e) : e[i] \in 55296..57343

\* int(c, 16) of one hexadecimal digit
HexVal(c) == IF c \in 48..57 THEN c - 48 ELSE IF c \in 65..70 THEN c - 55 ELSE c - 87

\* The loop without "w += 2": the two hex digits are read again as text.
_encode_utf8_step_noskip(m, st, w) ==
    IF m[w + 1] = 37
    THEN [b |-> Append(st.b, 16 * HexVal(m[w + 2]) + HexVal(m[w + 3])), skip |-> 0]
    ELSE [b |-> Append(st.b, m[w + 1]), skip |-> 0]

\* The while loop of _encode_utf8 on [b, skip], at index w of m.
_encode_utf8_step(m, st, w) ==
    IF st.skip > 0 THEN [b |-> st.b, skip |-> st.skip - 1]
    ELSE IF m[w + 1] = 37
    THEN [b |-> Append(st.b, 16 * HexVal(m[w + 2]) + HexVal(m[w + 3])), skip |-> 2]
    ELSE [b |-> Append(st.b, m[w + 1]), skip |-> 0]

\* The loop of _encode_utf8 over the quoted text m.
_encode_utf8_loop(m) ==
    LET Step(st, w) == _encode_utf8_step(m, st, w)
    IN ForRange(Step, [b |-> <<>>, skip |-> 0], 0, Len(m) - 1).b

\* def _encode_utf8(e: str) -> list[int]
_encode_utf8(e) == _encode_utf8_loop(Quote(e))

\* _XHS_B64_TABLE = "ZmserbBoHQtNP+wOcza/LpngG8yJq42KWYj0DSfdikx3VT16IlUAFM97hECvuRX5"
_XHS_B64_TABLE ==
    << 90, 109, 115, 101, 114, 98, 66, 111, 72, 81, 116, 78, 80, 43, 119, 79,
       99, 122, 97, 47, 76, 112, 110, 103, 71, 56, 121, 74, 113, 52, 50, 75,
       87, 89, 106, 48, 68, 83, 102, 100, 105, 107, 120, 51, 86, 84, 49, 54,
       73, 108, 85, 65, 70, 77, 57, 55, 104, 69, 67, 118, 117, 82, 88, 53 >>

\* triplet(n) for the three bytes at H, H + 1, H + 2 (0-based)
_xhs_b64_triplet(e, H) ==
    LET lookup(x) == _XHS_B64_TABLE[x + 1]
        triplet(n) ==
            <<lookup((n \div 262144) % 64), lookup((n \div 4096) % 64),
              lookup((n \div 64) % 64), lookup(n % 64)>>
    IN triplet(((e[H + 1] % 256) * 65536) + ((e[H + 2] % 256) * 256) + (e[H + 3] % 256))

\* A tail with the last sextet's bits left in the low places.
_xhs_b64_tail_low(e) ==
    LET lookup(x) == _XHS_B64_TABLE[x + 1]
        One(F) == <<lookup(F \div 4), lookup(F % 4), 61, 61>>
        Two(F) == <<lookup(F \div 1024), lookup((F \div 16) % 64), lookup(F % 16), 61>>
    IN CASE Len(e) % 3 = 1 -> One(e[Len(e)])
         [] Len(e) % 3 = 2 -> Two(e[Len(e) - 1] * 256 + e[Len(e)])
         [] OTHER -> <<>>

\* The part appended for the W = P % 3 last bytes.
_xhs_b64_tail(e) ==
    LET lookup(x) == _XHS_B64_TABLE[x + 1]
        One(F) == <<lookup(F \div 4), lookup((F * 16) % 64), 61, 61>>
        Two(F) == <<lookup(F \div 1024), lookup((F \div 16) % 64), lookup((F * 4) % 64), 61>>
    IN CASE Len(e) % 3 = 1 -> One(e[Len(e)])
         [] Len(e) % 3 = 2 -> Two(e[Len(e) - 1] * 256 + e[Len(e)])
         [] OTHER -> <<>>

\* def _xhs_b64_encode(e: list[int]) -> str
_xhs_b64_encode(e) ==
    LET Step(parts, k) == parts \o _xhs_b64_triplet(e, 3 * k)
    IN ForRange(Step, <<>>, 0, (Len(e) \div 3) - 1) \o _xhs_b64_tail(e)

(***************************************************************************)
(* The Protocol B signer sign_xiaohongshu.  data is None ([dict |-> FALSE])*)
(* or a dict of strings, given as the sequence of its items.               *)
(***************************************************************************)
\* A str value and an int value of a dict.
JStr(s) == [t |-> "str", v |-> s]
JInt(a) == [t |-> "int", v |-> a]

\* body = json.dumps(data, separators=(',', ':'), ensure_ascii=False)
\*        if isinstance(data, dict) else ''
_sign_xiaohongshu_body(data) ==
    IF data.dict THEN JsonDumps(data.items, FALSE) ELSE <<>>

\* raw = f"{v}test{uri}{body}"
_sign_xiaohongshu_raw(v, uri, data) ==
    BigStr(v) \o <<116, 101, 115, 116>> \o uri \o _sign_xiaohongshu_body(data)

\* x_s = _xhs_h(hashlib.md5(raw.encode()).hexdigest())
_sign_xiaohongshu_x_s(v, uri, data) ==
    _xhs_h(Md5HexDigest(Utf8(_sign_xiaohongshu_raw(v, uri, data)))).val

\* The signature alone as the argument of _mrc.
_sign_xiaohongshu_x9_arg_x_s(x_t, x_s) == x_s

\* The argument of _mrc: x_t + x_s
_sign_xiaohongshu_x9_arg(x_t, x_s) == x_t \o x_s

\* The dict common, with x9 the value _mrc returned.
_sign_xiaohongshu_common(a1, b1, x_t, x_s, x9) ==
    << <<<<115, 48>>, JInt(PyInt(<<0, 5>>))>>, <<<<115, 49>>, JStr(<<>>)>>,
       <<<<120, 48>>, JStr(<<49>>)>>, <<<<120, 49>>, JStr(<<51, 46, 50, 46, 48>>)>>,
       <<<<120, 50>>, JStr(<<87, 105, 110, 100, 111, 119, 115>>)>>,
       <<<<120, 51>>, JStr(<<120, 104, 115, 45, 112, 99, 45, 119, 101, 98>>)>>,
       <<<<120, 52>>, JStr(<<50, 46, 51, 46, 49>>)>>, <<<<120, 53>>, JStr(a1)>>,
       <<<<120, 54>>, JStr(x_t)>>, <<<<120, 55>>, JStr(x_s)>>, <<<<120, 56>>, JStr(b1)>>,
       <<<<120, 57>>, JInt(x9)>>, <<<<120, 49, 48>>, JInt(PyInt(<<0, 1>>))>> >>

\* Lines 438-446, given what _mrc yielded: an exception of _mrc propagates.
_sign_xiaohongshu_return(a1, b1, x_t, x_s, mrc) ==
    IF ~Returned(mrc) THEN Raise(mrc.exc)
    ELSE Ret(("x-s" :> x_s) @@ ("x-t" :> x_t) @@
             ("x-s-common" :>
                 _xhs_b64_encode(_encode_utf8(
                     JsonDumps(_sign_xiaohongshu_common(a1, b1, x_t, x_s, mrc.val), TRUE)))))

\* Lines 436-446, with x_t = str(v) and x_s computed.
_sign_xiaohongshu_signed(a1, b1, x_t, x_s) ==
    _sign_xiaohongshu_return(a1, b1, x_t, x_s, _mrc(_sign_xiaohongshu_x9_arg(x_t, x_s)))

\* def sign_xiaohongshu(uri, data=None, a1="", b1="") -> dict, with v read
\* from the clock
sign_xiaohongshu(uri, data, a1, b1, v) ==
    _sign_xiaohongshu_signed(a1, b1, BigStr(v), _sign_xiaohongshu_x_s(v, uri, data))

(***************************************************************************)
(* The identity generators get_xhs_cookies and get_xhs_search_id.          *)
(***************************************************************************)
\* The four lowercase hexadecimal digits of a 16-bit digit.
BigHexLimb(l) ==
    <<HexDigit(l \div 4096), HexDigit((l \div 256) % 16), HexDigit((l \div 16) % 16),
      HexDigit(l % 16)>>

\* hex(t)[2:]
BigHex(t) ==
    IF Len(t) = 0 THEN <<48>>
    ELSE LET Strip(d, top) ==
                 SubSeq(d, (IF top >= 4096 THEN 1 ELSE IF top >= 256 THEN 2
                            ELSE IF top >= 16 THEN 3 ELSE 4), Len(d))
         IN Strip(Join([k \in 1..Len(t) |-> BigHexLimb(t[Len(t) - k + 1])] \o <<>>),
                  t[Len(t)])

\* The int n, 0 <= n < 2^31, as a clock-sized number.
BigOfInt(n) == BigNorm(<<n % 65536, n \div 65536>>)

\* a + b
BigPlus(a, b) ==
    LET Step(st, i) ==
            [d |-> Append(st.d, (BigLimb(a, i) + BigLimb(b, i) + st.c) % 65536),
             c |-> (BigLimb(a, i) + BigLimb(b, i) + st.c) \div 65536]
        Carry(st) == IF st.c = 0 THEN st.d ELSE Append(st.d, st.c)
    IN Carry(ForRange(Step, [d |-> <<>>, c |-> 0], 1,
                      IF Len(a) > Len(b) THEN Len(a) ELSE Len(b)))

\* t << 64
BigShl64(t) == IF Len(t) = 0 THEN t ELSE <<0, 0, 0, 0>> \o t

\* divmod(t, d) for 0 < d < 2^15: [q, r]
BigDivMod(t, d) ==
    LET Step(st, k) ==
            [q |-> [st.q EXCEPT ![Len(t) - k] = (st.r * 65536 + t[Len(t) - k]) \div d],
             r |-> (st.r * 65536 + t[Len(t) - k]) % d]
        Norm(st) == [q |-> BigNorm(st.q), r |-> st.r]
    IN Norm(ForRange(Step, [q |-> t, r |-> 0], 0, Len(t) - 1))

\* binascii.crc32: one bit of the reflected CRC-32 (polynomial 0xEDB88320)
Crc32Bit(c) ==
    IF c[2] % 2 = 1
    THEN WXor(<<c[1] \div 2, ((c[1] % 2) * 32768) + (c[2] \div 2)>>, <<60856, 33568>>)
    ELSE <<c[1] \div 2, ((c[1] % 2) * 32768) + (c[2] \div 2)>>

\* binascii.crc32: one byte
Crc32Byte(c, b) ==
    Crc32Bit(Crc32Bit(Crc32Bit(Crc32Bit(Crc32Bit(Crc32Bit(Crc32Bit(Crc32Bit(
        WXor(c, <<0, b>>)))))))))

\* binascii.crc32(b), a word
Crc32(b) ==
    LET Step(c, i) == Crc32Byte(c, b[i])
    IN WNot(ForRange(Step, <<65535, 65535>>, 1, Len(b)))

\* (string.ascii_letters + string.digits)[i]
AsciiLettersDigits(i) ==
    IF i < 26 THEN 97 + i ELSE IF i < 52 THEN 39 + i ELSE i - 4

\* rand_str(n), the outcomes of random.choice given as indices
_get_xhs_cookies_rand_str(n, choices) ==
    [i \in 1..n |-> AsciiLettersDigits(choices[i])] \o <<>>

\* d = hex(int(time.time() * 1000))[2:] + rand_str(30) + "50000"
_get_xhs_cookies_d(ms, choices) ==
    BigHex(ms) \o _get_xhs_cookies_rand_str(30, choices) \o <<53, 48, 48, 48, 48>>

\* g = (d + str(crc32(d.encode())))[:52]
_get_xhs_cookies_g(d) ==
    LET Cut(x) == SubSeq(x, 1, IF Len(x) < 52 THEN Len(x) ELSE 52)
        Str(c) == BigStr(BigNorm(<<c[2], c[1]>>))
    IN Cut(d \o Str(Crc32(Utf8(d))))

\* return g, hashlib.md5(g.encode()).hexdigest()
_get_xhs_cookies_return(g) == <<g, Md5HexDigest(Utf8(g))>>

\* def get_xhs_cookies() -> tuple[str, str], at the clock reading ms
\* (milliseconds) with the 30 outcomes of random.choice
get_xhs_cookies(ms, choices) ==
    _get_xhs_cookies_return(_get_xhs_cookies_g(_get_xhs_cookies_d(ms, choices)))

\* A rendering in lowercase letters.
_get_xhs_search_id_alphabet_lower(i) == IF i < 10 THEN 48 + i ELSE 87 + i

\* alphabet[i], alphabet = '0123456789ABCDEFGHIJKLMNOPQRSTUVWXYZ'
_get_xhs_search_id_alphabet(i) == IF i < 10 THEN 48 + i ELSE 55 + i

\* The timestamp shifted by 16 bits only.
_get_xhs_search_id_num_shl16(ms, t) ==
    BigPlus(IF Len(ms) = 0 THEN ms ELSE <<0>> \o ms, BigOfInt(t))

\* e = int(time.time() * 1000) << 64; num = e + t
_get_xhs_search_id_num(ms, t) == BigPlus(BigShl64(ms), BigOfInt(t))

\* while num: num, i = divmod(num, 36); result = alphabet[i] + result
RECURSIVE _get_xhs_search_id_loop(_, _)
_get_xhs_search_id_loop(num, result) ==
    LET Rec(dm) == _get_xhs_search_id_loop(dm.q, <<_get_xhs_search_id_alphabet(dm.r)>> \o result)
    IN IF Len(num) = 0 THEN result ELSE Rec(BigDivMod(num, 36))

\* if num == 0: return '0'; otherwise the loop's result
_get_xhs_search_id_render(num) ==
    IF Len(num) = 0 THEN <<48>> ELSE _get_xhs_search_id_loop(num, <<>>)

\* def get_xhs_search_id() -> str, at the clock reading ms with
\* t = int(random.uniform(0, 2147483646))
get_xhs_search_id(ms, t) == _get_xhs_search_id_render(_get_xhs_search_id_num(ms, t))

(***************************************************************************)
(* What a call leaves behind in the objects it was given: the caller's     *)
(* list or dict, and the signer instance.                                  *)
(***************************************************************************)
\* The caller's data after _sm3_hash(data): "b = list(data)" copies, and the
\* padding is appended to a slice of the copy.
_sm3_hash_data(data) == data

\* The caller's list after _xhs_b64_encode(e): e is only indexed.
_xhs_b64_encode_e(e) == e

\* The caller's dict after sign_xiaohongshu(uri, data, ...): json.dumps
\* only reads it.
_sign_xiaohongshu_data(data) == data

\* A sign that extends the instance's own list instead of a.
_ABogus_sign_self_extended(self) == [self EXCEPT !.browser_code = Append(@, 0)]

\* The instance after sign: no attribute is assigned, and
\* "a.extend(self.browser_code)" changes a, not the instance's list.
_ABogus_sign_self(self) == self

(***************************************************************************)
(* CookieManager (auth.py): _data is a dict of platform entries, kept in   *)
(* the cookie file as indented JSON.  A Python value is                    *)
(* [t, v, items]: a dict with its items [key, val] in insertion order, a   *)
(* str with its text, or None.                                             *)
(***************************************************************************)
PyDict(items) == [t |-> "dict", v |-> <<>>, items |-> items]
PyStr(text) == [t |-> "str", v |-> text, items |-> <<>>]
PyNone == [t |-> "None", v |-> <<>>, items |-> <<>>]

\* The index of key k in the items of a dict (0: not a key).
PyDictIndex(items, k) ==
    IF \E i \in 1..Len(items) : items[i].key = k
    THEN CHOOSE i \in 1..Len(items) : items[i].key = k
    ELSE 0

\* d[k] = x on the items of a dict: a new key goes last, a known one keeps
\* its place.
PyDictSet(items, k, x) ==
    IF PyDictIndex(items, k) = 0 THEN Append(items, [key |-> k, val |-> x])
    ELSE [items EXCEPT ![PyDictIndex(items, k)] = [key |-> k, val |-> x]]

\* d.get(k)
PyDictGet(items, k) ==
    IF PyDictIndex(items, k) = 0 THEN PyNone ELSE items[PyDictIndex(items, k)].val

\* bool(x)
PyTruthy(x) ==
    CASE x.t = "dict" -> Len(x.items) > 0
      [] x.t = "str" -> Len(x.v) > 0
      [] OTHER -> FALSE

\* json.dumps(x, ensure_ascii=False, indent=2), x at nesting depth level
RECURSIVE JsonDumpsIndent(_, _)
JsonDumpsIndent(x, level) ==
    CASE x.t = "str" -> JsonStr(x.v, FALSE)
      [] x.t = "None" -> <<110, 117, 108, 108>>
      [] x.t = "dict" /\ Len(x.items) = 0 -> <<123, 125>>
      [] OTHER ->
            <<123, 10>>
              \o Join([k \in 1..Len(x.items) |->
                          (IF k > 1 THEN <<44, 10>> ELSE <<>>)
                            \o ([j \in 1..(2 * (level + 1)) |-> 32] \o <<>>)
                            \o JsonStr(x.items[k].key, FALSE) \o <<58, 32>>
                            \o JsonDumpsIndent(x.items[k].val, level + 1)] \o <<>>)
              \o <<10>> \o ([j \in 1..(2 * level) |-> 32] \o <<>>) \o <<125>>

\* One byte of bytes.decode("utf-8"), on [s, need, acc, lo, hi, err]: need
\* continuation bytes are due, the next one within lo..hi.
Utf8StrictStep(b, st, i) ==
    IF st.err THEN st
    ELSE IF st.need > 0
    THEN IF b[i] \in st.lo..st.hi
         THEN IF st.need = 1
              THEN [st EXCEPT !.s = Append(st.s, st.acc * 64 + (b[i] - 128)),
                              !.need = 0, !.acc = 0, !.lo = 128, !.hi = 191]
              ELSE [st EXCEPT !.need = st.need - 1, !.acc = st.acc * 64 + (b[i] - 128),
                              !.lo = 128, !.hi = 191]
         ELSE [st EXCEPT !.err = TRUE]
    ELSE CASE b[i] < 128 -> [st EXCEPT !.s = Append(st.s, b[i])]
           [] b[i] \in 194..223 -> [st EXCEPT !.need = 1, !.acc = b[i] - 192]
           [] b[i] = 224 -> [st EXCEPT !.need = 2, !.acc = 0, !.lo = 160]
           [] b[i] = 237 -> [st EXCEPT !.need = 2, !.acc = 13, !.hi = 159]
           [] b[i] \in 225..239 /\ b[i] # 237 -> [st EXCEPT !.need = 2, !.acc = b[i] - 224]
           [] b[i] = 240 -> [st EXCEPT !.need = 3, !.acc = 0, !.lo = 144]
           [] b[i] \in 241..243 -> [st EXCEPT !.need = 3, !.acc = b[i] - 240]
           [] b[i] = 244 -> [st EXCEPT !.need = 3, !.acc = 4, !.hi = 143]
           [] OTHER -> [st EXCEPT !.err = TRUE]

\* f.read() of a file opened with encoding="utf-8": the text, or
\* UnicodeDecodeError.  (Newline translation changes no parse: a raw
\* carriage return is white space outside a string and an error inside.)
Utf8Strict(b) ==
    LET Step(st, i) == Utf8StrictStep(b, st, i)
        End(st) == IF st.err \/ st.need > 0 THEN Raise("UnicodeDecodeError") ELSE Ret(st.s)
    IN End(ForRange(Step, [s |-> <<>>, need |-> 0, acc |-> 0, lo |-> 128, hi |-> 191,
                           err |-> FALSE], 1, Len(b)))

\* A parse that failed (json.JSONDecodeError), and one that read x up to p.
JsonLoadsFail == [ok |-> FALSE, x |-> PyNone, p |-> 0]
JsonLoadsOk(x, p) == [ok |-> TRUE, x |-> x, p |-> p]

\* The index of the first character at or after p that is not white space.
RECURSIVE JsonLoadsWs(_, _)
JsonLoadsWs(s, p) ==
    IF p <= Len(s) /\ s[p] \in {32, 9, 10, 13} THEN JsonLoadsWs(s, p + 1) ELSE p

IsHex(c) == c \in 48..57 \/ c \in 65..70 \/ c \in 97..102

\* The four hexadecimal digits at p..p+3 (-1: there are none).
JsonLoadsHex4(s, p) ==
    IF p + 3 <= Len(s) /\ \A k \in 0..3 : IsHex(s[p + k])
    THEN 4096 * HexVal(s[p]) + 256 * HexVal(s[p + 1]) + 16 * HexVal(s[p + 2]) + HexVal(s[p + 3])
    ELSE -1

\* The rest of a string (json.decoder.py_scanstring, strict), p after the
\* opening quote: the text read so far is acc.
RECURSIVE JsonLoadsString(_, _, _)
JsonLoadsEscapeU(s, p, acc, hi, lo) ==
    IF hi < 0 THEN JsonLoadsFail
    ELSE IF hi \in 55296..56319 /\ lo \in 56320..57343
    THEN JsonLoadsString(s, p + 12, Append(acc, 65536 + (hi - 55296) * 1024 + (lo - 56320)))
    ELSE JsonLoadsString(s, p + 6, Append(acc, hi))

JsonLoadsEscape(s, p, acc) ==
    IF p + 1 > Len(s) THEN JsonLoadsFail
    ELSE IF s[p + 1] = 117
    THEN JsonLoadsEscapeU(s, p, acc, JsonLoadsHex4(s, p + 2),
                          IF p + 7 <= Len(s) /\ s[p + 6] = 92 /\ s[p + 7] = 117
                          THEN JsonLoadsHex4(s, p + 8) ELSE -1)
    ELSE IF s[p + 1] \in {34, 92, 47, 98, 102, 110, 114, 116}
    THEN JsonLoadsString(s, p + 2,
             Append(acc, CASE s[p + 1] = 98 -> 8 [] s[p + 1] = 102 -> 12
                           [] s[p + 1] = 110 -> 10 [] s[p + 1] = 114 -> 13
                           [] s[p + 1] = 116 -> 9 [] OTHER -> s[p + 1]))
    ELSE JsonLoadsFail

JsonLoadsString(s, p, acc) ==
    IF p > Len(s) THEN JsonLoadsFail
    ELSE IF s[p] = 34 THEN JsonLoadsOk(PyStr(acc), p + 1)
    ELSE IF s[p] < 32 THEN JsonLoadsFail
    ELSE IF s[p] = 92 THEN JsonLoadsEscape(s, p, acc)
    ELSE JsonLoadsString(s, p + 1, Append(acc, s[p]))

\* A value at p (json.scanner.py_make_scanner): an object or a string; the
\* cookie files modelled hold no arrays, numbers or literals.
RECURSIVE JsonLoadsValue(_, _)
RECURSIVE JsonLoadsMembers(_, _, _)
\* After a member's value (json.decoder.JSONObject): "}" or "," at q.
JsonLoadsNext(s, items, q) ==
    IF q > Len(s) THEN JsonLoadsFail
    ELSE IF s[q] = 125 THEN JsonLoadsOk(PyDict(items), q + 1)
    ELSE IF s[q] = 44 THEN JsonLoadsMembers(s, JsonLoadsWs(s, q + 1), items)
    ELSE JsonLoadsFail

JsonLoadsMember(s, items, key, val) ==
    IF ~val.ok THEN JsonLoadsFail
    ELSE JsonLoadsNext(s, PyDictSet(items, key.x.v, val.x), JsonLoadsWs(s, val.p))

JsonLoadsColon(s, items, key, q) ==
    IF q > Len(s) \/ s[q] # 58 THEN JsonLoadsFail
    ELSE JsonLoadsMember(s, items, key, JsonLoadsValue(s, JsonLoadsWs(s, q + 1)))

JsonLoadsKey(s, items, key) ==
    IF ~key.ok THEN JsonLoadsFail
    ELSE JsonLoadsColon(s, items, key, JsonLoadsWs(s, key.p))

\* The members of an object from p on, where a property name must start.
JsonLoadsMembers(s, p, items) ==
    IF p > Len(s) \/ s[p] # 34 THEN JsonLoadsFail
    ELSE JsonLoadsKey(s, items, JsonLoadsString(s, p + 1, <<>>))

\* An object, p after "{" and white space.
JsonLoadsObject(s, p) ==
    IF p <= Len(s) /\ s[p] = 125 THEN JsonLoadsOk(PyDict(<<>>), p + 1)
    ELSE JsonLoadsMembers(s, p, <<>>)

JsonLoadsValue(s, p) ==
    IF p > Len(s) THEN JsonLoadsFail
    ELSE IF s[p] = 34 THEN JsonLoadsString(s, p + 1, <<>>)
    ELSE IF s[p] = 123 THEN JsonLoadsObject(s, JsonLoadsWs(s, p + 1))
    ELSE JsonLoadsFail

\* json.loads(s): one value between white space, nothing after it
JsonLoads(s) ==
    LET End(r) ==
            IF r.ok /\ JsonLoadsWs(s, r.p) = Len(s) + 1 THEN Ret(r.x)
            ELSE Raise("JSONDecodeError")
    IN End(JsonLoadsValue(s, JsonLoadsWs(s, 1)))

\* json.loads(f.read() or "{}")
_load_text(text) == JsonLoads(IF Len(text) = 0 THEN <<123, 125>> ELSE text)

\* "except (json.JSONDecodeError, OSError): return {}": any other exception
\* leaves _load
_load_except(r) ==
    IF r.exc \in {"JSONDecodeError", "OSError"} THEN Ret(PyDict(<<>>)) ELSE r

\* def _load(self) -> dict, on the cookie file f
_load(f) ==
    LET Read(t) == IF Returned(t) THEN _load_text(t.val) ELSE t
    IN IF f.exists THEN _load_except(Read(Utf8Strict(f.bytes))) ELSE Ret(PyDict(<<>>))

\* f.write(json.dumps(self._data, ensure_ascii=False, indent=2)) into the
\* file that open(..., "w") has emptied: a lone surrogate cannot be encoded
\* and the file stays empty
_save_write(text) ==
    IF \E i \in 1..Len(text) : text[i] \in 55296..57343
    THEN [exc |-> "UnicodeEncodeError", file |-> [exists |-> TRUE, bytes |-> <<>>]]
    ELSE [exc |-> "None", file |-> [exists |-> TRUE, bytes |-> Utf8(text)]]

\* def _save(self): what raises, and the cookie file afterwards
_save(data) == _save_write(JsonDumpsIndent(data, 0))

\* def get_cookies(self, platform) -> dict | None, with self._data = data
get_cookies(data, platform) ==
    LET Cookies(entry) ==
            IF ~PyTruthy(entry) THEN Ret(PyNone)
            ELSE IF entry.t # "dict" THEN Raise("AttributeError")
            ELSE Ret(PyDictGet(entry.items, <<99, 111, 111, 107, 105, 101, 115>>))
    IN IF data.t # "dict" THEN Raise("AttributeError")
       ELSE Cookies(PyDictGet(data.items, platform))

(***************************************************************************)
(* _legacy.py: the trending cache, the rate limiter, the retry loop and    *)
(* the client pool.  A dict is a function on its keys; times are whole     *)
(* numbers of the clock's unit.                                            *)
(***************************************************************************)
\* "cookies"
CookiesKeyName == <<99, 111, 111, 107, 105, 101, 115>>

\* d[k] = v
DictSet(d, k, v) == [x \in (DOMAIN d) \cup {k} |-> IF x = k THEN v ELSE d[x]]

\* An entry kept one unit longer.
_cached_trending_fresh_le(now, ts) == now - ts <= 300

\* Line 269: if now - ts < 300
_cached_trending_fresh(now, ts) == now - ts < 300

\* def _cached_trending(platform, fetch_fn) -> list, called when time.time()
\* reads now, fetch being what fetch_fn() does if it is called: the cache
\* afterwards, the number of calls of fetch_fn, and the outcome.
_cached_trending(cache, now, platform, fetch) ==
    IF platform \in DOMAIN cache /\ _cached_trending_fresh(now, cache[platform].ts)
    THEN [cache |-> cache, fetched |-> 0, result |-> Ret(cache[platform].data)]
    ELSE IF Returned(fetch)
    THEN [cache |-> DictSet(cache, platform, [ts |-> now, data |-> fetch.val]),
          fetched |-> 1, result |-> fetch]
    ELSE [cache |-> cache, fetched |-> 1, result |-> fetch]

\* Always the whole interval.
_rate_limit_wait_full(min_interval, now, last) == min_interval

\* Line 259: wait = max(0, min_interval - (now - last))
_rate_limit_wait(min_interval, now, last) ==
    IF min_interval - (now - last) > 0 THEN min_interval - (now - last) ELSE 0

\* def _rate_limit(platform, min_interval), called when _time.time() reads
\* now, _time.sleep(wait) returning after wait + late: the arguments of the
\* calls of sleep, the time read at line 262, and _last_request afterwards.
_rate_limit(last_request, now, platform, min_interval, late) ==
    LET Record(wait, t) ==
            [slept |-> IF wait > 0 THEN <<wait>> ELSE <<>>,
             recorded |-> t,
             last_request |-> DictSet(last_request, platform, t)]
        Sleep(wait) == Record(wait, IF wait > 0 THEN now + wait + late ELSE now)
    IN Sleep(_rate_limit_wait(min_interval, now,
                              IF platform \in DOMAIN last_request
                              THEN last_request[platform] ELSE 0))

MAX_RETRIES == 3

\* httpx: the exception classes under TransportError (TimeoutException is
\* one of them); DecodingError, TooManyRedirects and RuntimeError are not.
HttpxTransportErrors == {"ConnectError", "ReadError", "ConnectTimeout", "ReadTimeout"}

\* resp.raise_for_status(): HTTPStatusError unless the status is 2xx.
HttpxRaiseForStatus(status) ==
    IF status \in 200..299 THEN Ret(status) ELSE [exc |-> "HTTPStatusError", val |-> status]

\* client.request(...) followed by resp.raise_for_status(), reply being the
\* response's status or the exception that request raises.
HttpxRequest(reply) ==
    IF reply.kind = "response" THEN HttpxRaiseForStatus(reply.status) ELSE Raise(reply.exc)

\* Every status error is slept on and retried.
_request_with_retry_except_all(e, attempt) ==
    IF e.exc \in HttpxTransportErrors THEN [caught |-> TRUE, wait |-> 2 ^ attempt]
    ELSE IF e.exc = "HTTPStatusError" THEN [caught |-> TRUE, wait |-> 2 ^ (attempt + 1)]
    ELSE [caught |-> FALSE, wait |-> 0]

\* Lines 284-296: what the handlers do with the exception e of attempt
\* number attempt: whether the loop goes on, after how many seconds.
_request_with_retry_except(e, attempt) ==
    IF e.exc \in HttpxTransportErrors THEN [caught |-> TRUE, wait |-> 2 ^ attempt]
    ELSE IF e.exc = "HTTPStatusError" /\ e.val = 429
    THEN [caught |-> TRUE, wait |-> 2 ^ (attempt + 1)]
    ELSE [caught |-> FALSE, wait |-> 0]

\* def _get_cookies(platform), with the module's _cookies_store = store (a
\* PyDict) and _cookie_cache = cache: the cookies returned, which line 209
\* stores in the cache.
_get_cookies(store, cache, platform) ==
    LET Cookies(entry) ==
            IF entry.t = "dict" /\ PyDictIndex(entry.items, CookiesKeyName) > 0
                 /\ PyDictGet(entry.items, CookiesKeyName).t = "dict"
            THEN PyDictGet(entry.items, CookiesKeyName)
            ELSE IF entry.t = "dict" THEN entry ELSE PyDict(<<>>)
    IN IF platform \in DOMAIN cache THEN cache[platform]
       ELSE Cookies(IF PyDictIndex(store.items, platform) > 0
                    THEN PyDictGet(store.items, platform) ELSE PyDict(<<>>))

\* httpx.Client(...): a new client object, open.
HttpxClient(mobile, cookies) == [closed |-> FALSE, mobile |-> mobile, cookies |-> cookies]

\* client.close()
HttpxClose(client) == [client EXCEPT !.closed = TRUE]

\* def _get_client(platform, mobile) -> httpx.Client: the client returned
\* (its place among the client objects) and the module state afterwards.
_get_client(pool, objs, store, cache, platform, mobile) ==
    LET key == <<platform, mobile>>
        cookies == _get_cookies(store, cache, platform)
    IN IF key \in DOMAIN pool
       THEN [client |-> pool[key], pool |-> pool, objs |-> objs, cache |-> cache]
       ELSE [client |-> Len(objs) + 1,
             pool |-> DictSet(pool, key, Len(objs) + 1),
             objs |-> Append(objs, HttpxClient(mobile, IF PyTruthy(cookies) THEN cookies
                                                                          ELSE PyNone)),
             cache |-> DictSet(cache, platform, cookies)]

\* def _close_clients(): every client in the pool is closed; the pool keeps
\* them.
_close_clients(pool, objs) ==
    [c \in 1..Len(objs) |->
        IF \E k \in DOMAIN pool : pool[k] = c THEN HttpxClose(objs[c]) ELSE objs[c]] \o <<>>

\* No client counts as pooled.
_release_client_pooled_never(pool, client) == FALSE

\* Line 249: client in _client_pool.values() (httpx.Client defines no __eq__:
\* the same object)
_release_client_pooled(pool, client) == \E k \in DOMAIN pool : pool[k] = client

\* def _release_client(client): the client objects afterwards
_release_client(pool, objs, client) ==
    IF ~_release_client_pooled(pool, client)
    THEN [objs EXCEPT ![client] = HttpxClose(@)]
    ELSE objs

(***************************************************************************)
(* Values of the variables a specification does not use.                   *)
(***************************************************************************)
NoSigner == [constructed |-> FALSE]
NoClock == <<>>
NoRng == <<>>
NoFrames == <<>>
NoFile == [exists |-> FALSE]
\* An empty dict: a function with no keys
NoEntries == <<>>
NoLock == {}

\* The module-level tables as the module's import leaves them.
ModuleTables ==
    [_MRC_TABLE |-> _MRC_TABLE, _ABOGUS_STR |-> _ABOGUS_STR, _XHS_B64_TABLE |-> _XHS_B64_TABLE]

(***************************************************************************)
(* SpecSm3: one call of _sm3_hash on a message drawn from Sm3Messages.     *)
(***************************************************************************)
\* b"abc"
MsgAbc == <<97, 98, 99>>
\* b"abcd" * 16
MsgAbcd16 == [i \in 1..64 |-> 97 + ((i - 1) % 4)] \o <<>>
\* Lengths around the padding boundaries of one and two blocks.
Sm3Lens == {0, 1, 3, 55, 56, 63, 64, 65, 119, 120}
Sm3Fill(n, k) == [i \in 1..n |-> (37 * k + 11 * i) % 256] \o <<>>
Sm3Messages ==
    {MsgAbc, MsgAbcd16} \cup {Sm3Fill(n, k) : n \in Sm3Lens, k \in 0..MaxSeed}

Sm3Init ==
    /\ pc = "call"
    /\ args \in {[data |-> m] : m \in Sm3Messages}
    /\ out = <<>>
    /\ SM3_IV = _SM3_IV
    /\ ab = NoSigner
    /\ frames = NoFrames
    /\ tables = ModuleTables
    /\ _trending_cache = NoEntries
    /\ _last_request = NoEntries
    /\ _client_pool = NoEntries
    /\ clients = <<>>
    /\ flock = NoLock
    /\ _cookie_cache = NoEntries
    /\ fs = NoFile
    /\ cm = <<>>
    /\ mrc_e = <<>>
    /\ clock = NoClock
    /\ rng = NoRng

Sm3HashCall ==
    /\ pc = "call"
    /\ out' = Append(out, _sm3_hash(SM3_IV, args.data))
    /\ SM3_IV' = _sm3_hash_iv(SM3_IV)
    /\ pc' = "done"
    /\ UNCHANGED <<args, ab, clock, rng, mrc_e, frames, tables, fs, cm,
                 _trending_cache, _last_request, _client_pool, clients, flock, _cookie_cache>>

Sm3Next == Sm3HashCall

SpecSm3 == Sm3Init /\ [][Sm3Next]_vars

\* C1: _sm3_hash matches the published SM3 reference vectors: the digest of
\* "abc" is 66c7f0f4 62eeedd9 d1f2d46b dc10e4e2 4167c487 5cf2f7a2 297da02b
\* 8f4ba8e0 and the digest of "abcd" * 16 is debe9ff9 2275b8a1 38604889
\* c18e5a4d 6fdb70e5 387e5765 293dcba3 9c0c5732.
C1_Sm3Vectors ==
    pc = "done" =>
        /\ args.data = MsgAbc =>
              out[1] = <<102, 199, 240, 244, 98, 238, 237, 217,
                         209, 242, 212, 107, 220, 16, 228, 226,
                         65, 103, 196, 135, 92, 242, 247, 162,
                         41, 125, 160, 43, 143, 75, 168, 224>>
        /\ args.data = MsgAbcd16 =>
              out[1] = <<222, 190, 159, 249, 34, 117, 184, 161,
                         56, 96, 72, 137, 193, 142, 90, 77,
                         111, 219, 112, 229, 56, 126, 87, 101,
                         41, 61, 203, 163, 156, 12, 87, 50>>

C1_Witness == pc = "done" /\ args.data = MsgAbcd16 /\ Len(out[1]) = 32

(***************************************************************************)
(* SpecRc4: _rc4 applied to a plaintext, then to what it returned, with    *)
(* the same key.                                                           *)
(***************************************************************************)
Rc4Fill(n, k) == [i \in 1..n |-> (53 * k + 29 * i + 200) % 256] \o <<>>
Rc4Plaintexts == {Rc4Fill(n, k) : n \in 0..MaxPlainLen, k \in 0..MaxSeed}
\* "", "y", "\u0000\u0001\u000e" (the two keys the signer uses) and "Key".
Rc4Keys == {<<>>, <<121>>, <<0, 1, 14>>, <<75, 101, 121>>}

Rc4Init ==
    /\ pc = "call"
    /\ args \in {[plaintext |-> p, key |-> k] : p \in Rc4Plaintexts, k \in Rc4Keys}
    /\ out = <<>>
    /\ SM3_IV = _SM3_IV
    /\ ab = NoSigner
    /\ frames = NoFrames
    /\ tables = ModuleTables
    /\ _trending_cache = NoEntries
    /\ _last_request = NoEntries
    /\ _client_pool = NoEntries
    /\ clients = <<>>
    /\ flock = NoLock
    /\ _cookie_cache = NoEntries
    /\ fs = NoFile
    /\ cm = <<>>
    /\ mrc_e = <<>>
    /\ clock = NoClock
    /\ rng = NoRng

\* c = _rc4(P, K)
Rc4Encrypt ==
    /\ pc = "call"
    /\ LET r == _rc4(args.plaintext, args.key)
       IN /\ out' = Append(out, r)
          /\ pc' = IF Returned(r) THEN "encrypted" ELSE "raised"
    /\ UNCHANGED <<args, SM3_IV, ab, clock, rng, mrc_e, frames, tables, fs, cm,
                 _trending_cache, _last_request, _client_pool, clients, flock, _cookie_cache>>

\* _rc4(c, K)
Rc4Decrypt ==
    /\ pc = "encrypted"
    /\ LET r == _rc4(out[1].val, args.key)
       IN /\ out' = Append(out, r)
          /\ pc' = IF Returned(r) THEN "done" ELSE "raised"
    /\ UNCHANGED <<args, SM3_IV, ab, clock, rng, mrc_e, frames, tables, fs, cm,
                 _trending_cache, _last_request, _client_pool, clients, flock, _cookie_cache>>

Rc4Next == Rc4Encrypt \/ Rc4Decrypt

SpecRc4 == Rc4Init /\ [][Rc4Next]_vars

EncBytes(n, k) == [i \in 1..n |-> (37 * k + 11 * i + 5 * k * i) % 256] \o <<>>
\* Characters of a lowercase hex digest: "0".."9", "a".."f".
EncHex(n, k) ==
    [i \in 1..n |-> LET x == (7 * k + 3 * i + k * i) % 16
                    IN IF x < 10 THEN 48 + x ELSE 87 + x] \o <<>>
\* Byte values with a zero at every third place.
EncZeros(n, k) ==
    [i \in 1..n |-> IF (i + k) % 3 = 0 THEN 0 ELSE (29 * k + 13 * i) % 256] \o <<>>
EncFills(n) ==
    {EncBytes(n, k) : k \in 0..MaxSeed}
        \cup {EncHex(n, k) : k \in 0..MaxSeed}
        \cup {EncZeros(n, k) : k \in 0..MaxSeed}
\* Lengths below, at and above the length the function reads.
MrcInputs == UNION {EncFills(n) : n \in {0, 56, 57, 58}}
XhsHInputs == UNION {EncFills(n) : n \in {0, 30, 31, 32, 33}}

EncInit ==
    /\ pc = "call"
    /\ args \in {[fn |-> "_mrc", arg |-> e] : e \in MrcInputs}
                \cup {[fn |-> "_xhs_h", arg |-> n] : n \in XhsHInputs}
    /\ out = <<>>
    /\ SM3_IV = _SM3_IV
    /\ ab = NoSigner
    /\ frames = NoFrames
    /\ tables = ModuleTables
    /\ _trending_cache = NoEntries
    /\ _last_request = NoEntries
    /\ _client_pool = NoEntries
    /\ clients = <<>>
    /\ flock = NoLock
    /\ _cookie_cache = NoEntries
    /\ fs = NoFile
    /\ cm = <<>>
    /\ mrc_e = <<>>
    /\ clock = NoClock
    /\ rng = NoRng

MrcCall ==
    /\ pc = "call"
    /\ args.fn = "_mrc"
    /\ LET r == _mrc(args.arg)
       IN /\ out' = Append(out, r)
          /\ pc' = IF Returned(r) THEN "done" ELSE "raised"
    /\ mrc_e' = Append(mrc_e, args.arg)
    /\ UNCHANGED <<args, SM3_IV, ab, clock, rng, frames, tables, fs, cm,
                 _trending_cache, _last_request, _client_pool, clients, flock, _cookie_cache>>

XhsHCall ==
    /\ pc = "call"
    /\ args.fn = "_xhs_h"
    /\ LET r == _xhs_h(args.arg)
       IN /\ out' = Append(out, r)
          /\ pc' = IF Returned(r) THEN "done" ELSE "raised"
    /\ UNCHANGED <<args, SM3_IV, ab, clock, rng, mrc_e, frames, tables, fs, cm,
                 _trending_cache, _last_request, _client_pool, clients, flock, _cookie_cache>>

EncNext == MrcCall \/ XhsHCall

SpecEnc == EncInit /\ [][EncNext]_vars

IsBytes(s) == \A i \in 1..Len(s) : s[i] \in 0..255
Elems(s) == {s[i] : i \in 1..Len(s)}

\* C6: fixed-length encoder: for any 32-element input of byte values _xhs_h
\* returns exactly 44 characters (11 groups of 4), all of them from its
\* 65-symbol alphabet, and no alphabet index used is outside 0..64.
C6_XhsH44 ==
    (pc # "call" /\ args.fn = "_xhs_h" /\ Len(args.arg) = 32 /\ IsBytes(args.arg)) =>
        /\ pc = "done"
        /\ Len(out[1].val) = 44
        /\ Len(_xhs_h_d) = 65
        /\ Elems(out[1].val) \subseteq Elems(_xhs_h_d)
        /\ \A k \in 0..10 :
              LET grp == _xhs_h_group(args.arg, 3 * k)
              IN Returned(grp) /\ \A q \in 1..4 : grp.val[q] \in 0..64

\* A 32-byte input with zero bytes, whose output uses the placeholder d[64].
C6_Witness ==
    /\ pc = "done"
    /\ args.fn = "_xhs_h"
    /\ Len(args.arg) = 32
    /\ IsBytes(args.arg)
    /\ 0 \in Elems(args.arg)
    /\ Len(out[1].val) = 44
    /\ _xhs_h_d[65] \in Elems(out[1].val)

\* C7: for every 57-character input with character codes in 0..255, _mrc
\* returns a signed 32-bit integer v, -2^31 <= v <= 2^31 - 1.
C7_MrcSigned32 ==
    (pc # "call" /\ args.fn = "_mrc" /\ Len(args.arg) = 57 /\ IsBytes(args.arg)) =>
        /\ pc = "done"
        /\ PyIsInt32(out[1].val)

\* C8 as the claim states it: the constant XORed into the running checksum
\* after the 57 table steps is 0xED59B63A.
C8_FinalXorED59B63A ==
    (pc = "done" /\ args.fn = "_mrc") =>
        out[1].val = PyXor(PyXor(_mrc_loop(args.arg).o, PyMinusOne), PyInt(<<60761, 46650>>))

\* C8 (amended): the final step of _mrc computes result XOR -1 XOR
\* 0xEDB88320: the constant XORed into the running checksum after the 57
\* table steps is 0xEDB88320 (3988292384).
C8_FinalXorEDB88320 ==
    (pc = "done" /\ args.fn = "_mrc") =>
        out[1].val = PyXor(PyXor(_mrc_loop(args.arg).o, PyMinusOne), PyInt(<<60856, 33568>>))

C8_Witness ==
    /\ pc = "done"
    /\ args.fn = "_mrc"
    /\ Len(args.arg) = 57
    /\ _mrc_loop(args.arg).exc = "None"
    /\ out[1].val.sx = 1

\* C9: the fixed-length encoders reject inputs that violate their length
\* contract: _mrc on a string whose length is not 57 and _xhs_h on an input
\* whose length is not 32 end in an error and never return a value, for
\* shorter and for longer inputs.
C9_RejectsWrongLength ==
    (pc # "call" /\ \/ (args.fn = "_mrc" /\ Len(args.arg) # 57)
                    \/ (args.fn = "_xhs_h" /\ Len(args.arg) # 32)) =>
        pc = "raised"

(***************************************************************************)
(* SpecDouyin: sign_douyin(params, user_agent, method) called twice with   *)
(* the same arguments, the clock and the random source fixed (each call    *)
(* reads the same time, jitter and draws).  sign_douyin constructs the     *)
(* signer (ABogusNew) and calls its sign (ABogusSign).                     *)
(***************************************************************************)
\* "a=1", "aid=6383&aweme_id=123"
DouyinParams == {<<97, 61, 49>>,
                 <<97, 105, 100, 61, 54, 51, 56, 51, 38, 97, 119, 101, 109, 101, 95, 105, 100, 61, 49, 50, 51>>}
\* _DEFAULT_UA, "Mozilla/5.0"
DouyinUserAgents == {_DEFAULT_UA, <<77, 111, 122, 105, 108, 108, 97, 47, 53, 46, 48>>}
\* "GET", "POST"
DouyinMethods == {<<71, 69, 84>>, <<80, 79, 83, 84>>}
\* 1700000000000; 1717986918399 = 400 * 2^32 - 1, where adding the jitter
\* carries into the third digit
DouyinClocks == <<<<26624, 53221, 395>>, <<65535, 65535, 399>>>>
\* What the random source yields in one call, by seed: randint(4, 8) and
\* int(random.random() * 10000) of the three draws
DouyinRng(k) ==
    [jitter |-> 4 + ((4 * k) % 5),
     draws |-> <<(2731 * k) % 10000, (577 * k + 4242) % 10000, (9001 * k + 9977) % 10000>>]

DouyinInit ==
    /\ pc = "call1"
    /\ args \in {[params |-> p, user_agent |-> u, method |-> m] :
                    p \in DouyinParams, u \in DouyinUserAgents, m \in DouyinMethods}
    /\ out = <<>>
    /\ SM3_IV = _SM3_IV
    /\ ab = NoSigner
    /\ frames = NoFrames
    /\ tables = ModuleTables
    /\ _trending_cache = NoEntries
    /\ _last_request = NoEntries
    /\ _client_pool = NoEntries
    /\ clients = <<>>
    /\ flock = NoLock
    /\ _cookie_cache = NoEntries
    /\ fs = NoFile
    /\ cm = <<>>
    /\ mrc_e = <<>>
    /\ \E k \in 0..MaxDrawSeed :
            /\ clock = DouyinClocks[(k % 2) + 1]
            /\ rng = DouyinRng(k)

\* ab = _ABogus(user_agent)
ABogusNew ==
    /\ pc \in {"call1", "call2"}
    /\ ab' = _ABogus_init(SM3_IV, args.user_agent)
    /\ SM3_IV' = _ABogus_init_iv(SM3_IV)
    /\ pc' = IF pc = "call1" THEN "sign1" ELSE "sign2"
    /\ UNCHANGED <<args, out, clock, rng, mrc_e, frames, tables, fs, cm,
                 _trending_cache, _last_request, _client_pool, clients, flock, _cookie_cache>>

\* return ab.sign(params, method)
ABogusSign ==
    /\ pc \in {"sign1", "sign2"}
    /\ out' = Append(out, Ret(_ABogus_sign(ab, SM3_IV, args.params, args.method,
                                           clock, rng.jitter, rng.draws)))
    /\ SM3_IV' = _ABogus_sign_iv(SM3_IV)
    /\ pc' = IF pc = "sign1" THEN "call2" ELSE "done"
    /\ UNCHANGED <<args, ab, clock, rng, mrc_e, frames, tables, fs, cm,
                 _trending_cache, _last_request, _client_pool, clients, flock, _cookie_cache>>

DouyinNext == ABogusNew \/ ABogusSign

SpecDouyin == DouyinInit /\ [][DouyinNext]_vars

C4_SignLength ==
    \A i \in 1..Len(out) :
        LET N == 12 + 44 + Len(_DEFAULT_BROWSER) + 1
        IN Returned(out[i]) /\ Len(out[i].val) = 4 * ((N + 2) \div 3)

C4_Witness ==
    /\ pc = "done"
    /\ Len(out) = 2
    /\ Len(out[1].val) = 164
    /\ Len(out[2].val) = 164

(***************************************************************************)
(* SpecXhs: one call of sign_xiaohongshu(uri, data, a1, b1) at a clock     *)
(* reading.                                                                *)
(***************************************************************************)
\* "/api/sns/web/v1/feed", "/api/sns/web/v1/search/notes?keyword=a b"
XhsUris == {<<47, 97, 112, 105, 47, 115, 110, 115, 47, 119, 101, 98, 47, 118, 49, 47, 102, 101, 101, 100>>,
            <<47, 97, 112, 105, 47, 115, 110, 115, 47, 119, 101, 98, 47, 118, 49, 47, 115, 101, 97, 114, 99, 104, 47, 110, 111, 116, 101, 115, 63, 107, 101, 121, 119, 111, 114, 100, 61, 97, 32, 98>>}
\* None, {}, {"keyword": "咖啡", "note": "a\"b"}
XhsData == {[dict |-> FALSE],
            [dict |-> TRUE, items |-> <<>>],
            [dict |-> TRUE,
             items |-> << <<<<107, 101, 121, 119, 111, 114, 100>>, JStr(<<21654, 21857>>)>>,
                          <<<<110, 111, 116, 101>>, JStr(<<97, 34, 98>>)>> >>]}
\* <<a1, b1>>: the defaults, plain cookies, and values json.dumps escapes
\* ('a"\' followed by U+00E9, U+4E2D and a newline; "b1=%/+ ~")
XhsCookies == {<< <<>>, <<>> >>,
               <<<<49, 56, 99, 50, 97, 49, 102, 48, 101, 53, 102, 97, 98, 99, 100, 101, 102, 103, 104, 105, 106, 107, 108, 109, 110, 111, 112, 113, 114, 115, 116, 117, 118, 119, 120, 121, 122, 48, 49, 50, 51, 52, 53, 48, 48, 48, 48, 49, 50, 51, 52, 53, 54>>, <<73, 51, 56, 114, 72, 100, 103, 115, 106, 111, 112, 103, 73, 118, 101, 115, 100, 86, 119, 103, 73, 67>>>>,
               << <<97, 34, 92, 233, 20013, 10>>, <<98, 49, 61, 37, 47, 43, 32, 126>> >>}
\* 0, 10^12 - 1, 10^12, 1700000000000, 10^13 - 1, 10^13
XhsClocks == {<<>>, <<4095, 54437, 232>>, <<4096, 54437, 232>>, <<26624, 53221, 395>>,
              <<40959, 20082, 2328>>, <<40960, 20082, 2328>>}

XhsInit ==
    /\ pc = "call"
    /\ args \in {[uri |-> u, data |-> d, a1 |-> c[1], b1 |-> c[2]] :
                    u \in XhsUris, d \in XhsData, c \in XhsCookies}
    /\ out = <<>>
    /\ SM3_IV = _SM3_IV
    /\ ab = NoSigner
    /\ frames = NoFrames
    /\ tables = ModuleTables
    /\ _trending_cache = NoEntries
    /\ _last_request = NoEntries
    /\ _client_pool = NoEntries
    /\ clients = <<>>
    /\ flock = NoLock
    /\ _cookie_cache = NoEntries
    /\ fs = NoFile
    /\ cm = <<>>
    /\ mrc_e = <<>>
    /\ clock \in XhsClocks
    /\ rng = NoRng

\* sign_xiaohongshu(uri, data, a1, b1)
XhsSign ==
    /\ pc = "call"
    /\ \E r \in {sign_xiaohongshu(args.uri, args.data, args.a1, args.b1, clock)} :
          /\ out' = Append(out, r)
          /\ pc' = IF Returned(r) THEN "done" ELSE "raised"
    /\ mrc_e' = Append(mrc_e,
                       _sign_xiaohongshu_x9_arg(BigStr(clock),
                           _sign_xiaohongshu_x_s(clock, args.uri, args.data)))
    /\ UNCHANGED <<args, SM3_IV, ab, clock, rng, frames, tables, fs, cm,
                 _trending_cache, _last_request, _client_pool, clients, flock, _cookie_cache>>

XhsNext == XhsSign

SpecXhs == XhsInit /\ [][XhsNext]_vars

(***************************************************************************)
(* Decoding x-s-common: the inverse of _xhs_b64_encode, the inverse of the *)
(* percent-encode-to-bytes step (UTF-8 decoding) and a parser of compact   *)
(* JSON objects whose values are strings and integers.                     *)
(***************************************************************************)
XhsB64Index(c) == CHOOSE k \in 0..63 : _XHS_B64_TABLE[k + 1] = c

\* The bytes of the group of four characters that starts at 4 * k (0-based).
XhsB64DecodeGroup(t, k) ==
    LET I(q) == XhsB64Index(t[4 * k + q])
    IN <<I(1) * 4 + (I(2) \div 16)>>
         \o (IF t[4 * k + 3] = 61 THEN <<>>
             ELSE <<(I(2) % 16) * 16 + (I(3) \div 4)>>
                    \o (IF t[4 * k + 4] = 61 THEN <<>>
                        ELSE <<(I(3) % 4) * 64 + I(4)>>))

XhsB64Decode(t) ==
    LET Step(b, k) == b \o XhsB64DecodeGroup(t, k)
    IN ForRange(Step, <<>>, 0, (Len(t) \div 4) - 1)

\* bytes.decode("utf-8") of well-formed input, on [s, need, acc]
Utf8DecodeStep(b, st, i) ==
    CASE st.need > 1 -> [s |-> st.s, need |-> st.need - 1, acc |-> st.acc * 64 + (b[i] - 128)]
      [] st.need = 1 -> [s |-> Append(st.s, st.acc * 64 + (b[i] - 128)), need |-> 0, acc |-> 0]
      [] st.need = 0 /\ b[i] < 128 -> [s |-> Append(st.s, b[i]), need |-> 0, acc |-> 0]
      [] st.need = 0 /\ b[i] \in 192..223 -> [s |-> st.s, need |-> 1, acc |-> b[i] - 192]
      [] st.need = 0 /\ b[i] \in 224..239 -> [s |-> st.s, need |-> 2, acc |-> b[i] - 224]
      [] OTHER -> [s |-> st.s, need |-> 3, acc |-> b[i] - 240]

Utf8Decode(b) ==
    LET Step(st, i) == Utf8DecodeStep(b, st, i)
    IN ForRange(Step, [s |-> <<>>, need |-> 0, acc |-> 0], 1, Len(b)).s

\* The character an escape letter stands for (0: none).
JsonUnescape(c) ==
    CASE c = 34 -> 34 [] c = 92 -> 92 [] c = 47 -> 47 [] c = 98 -> 8 [] c = 102 -> 12
      [] c = 110 -> 10 [] c = 114 -> 13 [] c = 116 -> 9 [] OTHER -> 0

\* The parser's state after the string being read ends.
JsonEndString(st) ==
    IF st.mode = "key"
    THEN [st EXCEPT !.mode = "colon", !.key = st.buf, !.buf = <<>>]
    ELSE [st EXCEPT !.mode = "sep", !.buf = <<>>,
                    !.items = Append(st.items, [key |-> st.key, t |-> "str", v |-> st.buf])]

\* One character inside a string (a key or a value).
JsonInString(st, c) ==
    CASE st.esc = 1 /\ c = 117 -> [st EXCEPT !.esc = 2, !.hex = 0]
      [] st.esc = 1 /\ c # 117 ->
            IF JsonUnescape(c) = 0 /\ c # 0 THEN [st EXCEPT !.mode = "error"]
            ELSE [st EXCEPT !.esc = 0, !.buf = Append(st.buf, JsonUnescape(c))]
      [] st.esc \in 2..4 -> [st EXCEPT !.esc = st.esc + 1, !.hex = st.hex * 16 + HexVal(c)]
      [] st.esc = 5 -> [st EXCEPT !.esc = 0, !.buf = Append(st.buf, st.hex * 16 + HexVal(c))]
      [] st.esc = 0 /\ c = 92 -> [st EXCEPT !.esc = 1]
      [] st.esc = 0 /\ c = 34 -> JsonEndString(st)
      [] st.esc = 0 /\ c < 32 -> [st EXCEPT !.mode = "error"]
      [] OTHER -> [st EXCEPT !.buf = Append(st.buf, c)]

\* The item a number ends with.
JsonNumber(st) == Append(st.items, [key |-> st.key, t |-> "int", v |-> st.buf])

\* One character of the text: no white space is accepted anywhere.
JsonParseStep(text, st, i) ==
    CASE st.mode = "obj" -> [st EXCEPT !.mode = IF text[i] = 123 THEN "first" ELSE "error"]
      [] st.mode = "first" ->
            [st EXCEPT !.mode = CASE text[i] = 34 -> "key" [] text[i] = 125 -> "done"
                                  [] OTHER -> "error"]
      [] st.mode = "next" -> [st EXCEPT !.mode = IF text[i] = 34 THEN "key" ELSE "error"]
      [] st.mode \in {"key", "str"} -> JsonInString(st, text[i])
      [] st.mode = "colon" -> [st EXCEPT !.mode = IF text[i] = 58 THEN "val" ELSE "error"]
      [] st.mode = "val" ->
            CASE text[i] = 34 -> [st EXCEPT !.mode = "str"]
              [] text[i] \in 48..57 \/ text[i] = 45 -> [st EXCEPT !.mode = "num", !.buf = <<text[i]>>]
              [] OTHER -> [st EXCEPT !.mode = "error"]
      [] st.mode = "num" ->
            CASE text[i] \in 48..57 -> [st EXCEPT !.buf = Append(st.buf, text[i])]
              [] text[i] = 44 -> [st EXCEPT !.mode = "next", !.buf = <<>>, !.items = JsonNumber(st)]
              [] text[i] = 125 -> [st EXCEPT !.mode = "done", !.buf = <<>>, !.items = JsonNumber(st)]
              [] OTHER -> [st EXCEPT !.mode = "error"]
      [] st.mode = "sep" ->
            [st EXCEPT !.mode = CASE text[i] = 44 -> "next" [] text[i] = 125 -> "done"
                                  [] OTHER -> "error"]
      [] OTHER -> [st EXCEPT !.mode = "error"]

\* The items of the object, or mode "error".
JsonParse(text) ==
    LET Step(st, i) == JsonParseStep(text, st, i)
    IN ForRange(Step, [mode |-> "obj", items |-> <<>>, key |-> <<>>, buf |-> <<>>,
                       esc |-> 0, hex |-> 0], 1, Len(text))

\* "s0", "s1", "x0", ..., "x10"
XhsCommonKeys ==
    <<<<115, 48>>, <<115, 49>>, <<120, 48>>, <<120, 49>>, <<120, 50>>, <<120, 51>>,
      <<120, 52>>, <<120, 53>>, <<120, 54>>, <<120, 55>>, <<120, 56>>, <<120, 57>>,
      <<120, 49, 48>>>>

\* The record rec decoded from x-s-common agrees with the call and its result r.
XhsCommonConsistent(rec, r, a1, b1) ==
    /\ rec.mode = "done"
    /\ Len(rec.items) = 13
    /\ \A i \in 1..13 : rec.items[i].key = XhsCommonKeys[i]
    /\ rec.items[8] = [key |-> XhsCommonKeys[8], t |-> "str", v |-> a1]
    /\ rec.items[9] = [key |-> XhsCommonKeys[9], t |-> "str", v |-> r["x-t"]]
    /\ rec.items[10] = [key |-> XhsCommonKeys[10], t |-> "str", v |-> r["x-s"]]
    /\ rec.items[11] = [key |-> XhsCommonKeys[11], t |-> "str", v |-> b1]
    /\ Returned(_mrc(r["x-t"] \o r["x-s"]))
    /\ rec.items[12] = [key |-> XhsCommonKeys[12], t |-> "int",
                        v |-> PyIntStr(_mrc(r["x-t"] \o r["x-s"]).val)]

\* C5: sign_xiaohongshu returns a map with exactly the keys x-s, x-t and
\* x-s-common; x-t is the decimal string of the timestamp read, and decoding
\* x-s-common (Base-64, then bytes to text) yields the compact JSON record
\* with the fields s0, s1, x0..x10 in order, in which x5 = a1, x6 = x-t,
\* x7 = x-s, x8 = b1 and x9 = mrc(x-t + x-s).
C5_XhsHeadersConsistent ==
    \A i \in 1..Len(out) :
        Returned(out[i]) =>
            /\ DOMAIN out[i].val = {"x-s", "x-t", "x-s-common"}
            /\ out[i].val["x-t"] = BigStr(clock)
            /\ XhsCommonConsistent(
                   JsonParse(Utf8Decode(XhsB64Decode(out[i].val["x-s-common"]))),
                   out[i].val, args.a1, args.b1)

\* A call that returned, with an a1 that json.dumps escapes.
C5_Witness ==
    /\ pc = "done"
    /\ Len(args.a1) > 1
    /\ args.a1[2] = 34
    /\ clock = <<26624, 53221, 395>>
    /\ Len(out[1].val["x-s-common"]) > 0
    /\ Len(JsonParse(Utf8Decode(XhsB64Decode(out[1].val["x-s-common"]))).items) = 13

UaFill(n) == [i \in 1..n |-> 32 + ((7 * i + n) % 95)] \o <<>>

UaUserAgents == {UaFill(n) : n \in 0..MaxUaLen} \cup {_DEFAULT_UA}

UaInit ==
    /\ pc = "call1"
    /\ args \in {[params |-> <<97, 61, 49>>, user_agent |-> u, method |-> <<71, 69, 84>>] :
                    u \in UaUserAgents}
    /\ out = <<>>
    /\ SM3_IV = _SM3_IV
    /\ ab = NoSigner
    /\ frames = NoFrames
    /\ tables = ModuleTables
    /\ _trending_cache = NoEntries
    /\ _last_request = NoEntries
    /\ _client_pool = NoEntries
    /\ clients = <<>>
    /\ flock = NoLock
    /\ _cookie_cache = NoEntries
    /\ fs = NoFile
    /\ cm = <<>>
    /\ mrc_e = <<>>
    /\ clock = <<26624, 53221, 395>>
    /\ rng = DouyinRng(0)

UaNext == ABogusNew

SpecUa == UaInit /\ [][UaNext]_vars

\* ua_b64 of __init__: the s3 encoding of the RC4-encrypted user agent
UaB64(user_agent) == _custom_b64(_rc4(user_agent, <<0, 1, 14>>).val, "s3")

\* C11: for every user agent, the ua_code cached at construction equals
\* _sm3_hash of the s3 encoding of the user agent RC4-encrypted with the
\* fixed key, also when the encoding's length modulo 64 is 0 or >= 56.
C11_UaCodeIsSm3Hash ==
    ab.constructed => ab.ua_code = _sm3_hash(_SM3_IV, UaB64(args.user_agent))

\* What does hold: the two agree when the encoding's length modulo 64 is
\* below 56 and not 0, or the encoding is empty.
C11_UaCodeIsSm3HashShortTail ==
    (ab.constructed /\ (Len(UaB64(args.user_agent)) = 0
                        \/ (Len(UaB64(args.user_agent)) % 64) \in 1..55))
        => ab.ua_code = _sm3_hash(_SM3_IV, UaB64(args.user_agent))

(***************************************************************************)
(* SpecCodec: one call of _xhs_b64_encode on a byte sequence or of         *)
(* _encode_utf8 on a string.                                               *)
(***************************************************************************)
CodecBytes ==
    UNION {{EncBytes(n, k) : k \in 0..MaxSeed}
             \cup {[i \in 1..n |-> 0] \o <<>>, [i \in 1..n |-> 255] \o <<>>} :
           n \in 0..MaxCodecLen}

\* Characters of every UTF-8 length, the safe set, "%", and surrogates.
CodecChars ==
    <<97, 37, 126, 40, 41, 42, 33, 46, 39, 95, 45, 32, 47, 43, 0, 127, 128, 233,
      2047, 2048, 20013, 8364, 65535, 65536, 128512, 1114111, 52, 49, 70, 102>>

CodecText(n, k) == [i \in 1..n |-> CodecChars[((k * 7 + i * (k + 1)) % Len(CodecChars)) + 1]] \o <<>>

CodecStrings ==
    {CodecText(n, k) : n \in 0..4, k \in 0..MaxSeed}
        \cup {<<37>>, <<37, 52, 49>>, <<97, 37, 98>>, <<37, 37>>, <<37, 50, 53>>,
              <<126, 40, 41, 42, 33, 46, 39>>, <<20013, 25991>>,
              <<97, 20013, 37, 126, 128512>>,
              <<55296>>, <<55357, 56832>>, <<97, 57343>>}

CodecInit ==
    /\ pc = "call"
    /\ args \in {[fn |-> "_xhs_b64_encode", arg |-> e] : e \in CodecBytes}
                \cup {[fn |-> "_encode_utf8", arg |-> e] : e \in CodecStrings}
    /\ out = <<>>
    /\ SM3_IV = _SM3_IV
    /\ ab = NoSigner
    /\ frames = NoFrames
    /\ tables = ModuleTables
    /\ _trending_cache = NoEntries
    /\ _last_request = NoEntries
    /\ _client_pool = NoEntries
    /\ clients = <<>>
    /\ flock = NoLock
    /\ _cookie_cache = NoEntries
    /\ fs = NoFile
    /\ cm = <<>>
    /\ mrc_e = <<>>
    /\ clock = NoClock
    /\ rng = NoRng

XhsB64EncodeCall ==
    /\ pc = "call"
    /\ args.fn = "_xhs_b64_encode"
    /\ out' = Append(out, Ret(_xhs_b64_encode(args.arg)))
    /\ pc' = "done"
    /\ UNCHANGED <<args, SM3_IV, ab, clock, rng, mrc_e, frames, tables, fs, cm,
                 _trending_cache, _last_request, _client_pool, clients, flock, _cookie_cache>>

EncodeUtf8Call ==
    /\ pc = "call"
    /\ args.fn = "_encode_utf8"
    /\ LET r == IF QuoteRaises(args.arg) THEN Raise("UnicodeEncodeError")
                ELSE Ret(_encode_utf8(args.arg))
       IN /\ out' = Append(out, r)
          /\ pc' = IF Returned(r) THEN "done" ELSE "raised"
    /\ UNCHANGED <<args, SM3_IV, ab, clock, rng, mrc_e, frames, tables, fs, cm,
                 _trending_cache, _last_request, _client_pool, clients, flock, _cookie_cache>>

CodecNext == XhsB64EncodeCall \/ EncodeUtf8Call

SpecCodec == CodecInit /\ [][CodecNext]_vars

\* RFC 4648 section 4 with the alphabet `table`: the input read as a stream
\* of bits, most significant first, cut into groups of 6 bits (the last one
\* filled with zero bits), then "=" up to a multiple of four characters.
Rfc4648Bit(e, j) ==
    IF j < 8 * Len(e) THEN (e[(j \div 8) + 1] \div Pow2(7 - (j % 8))) % 2 ELSE 0

Rfc4648Sextet(e, g) ==
    32 * Rfc4648Bit(e, 6 * g) + 16 * Rfc4648Bit(e, 6 * g + 1) + 8 * Rfc4648Bit(e, 6 * g + 2)
        + 4 * Rfc4648Bit(e, 6 * g + 3) + 2 * Rfc4648Bit(e, 6 * g + 4) + Rfc4648Bit(e, 6 * g + 5)

Rfc4648(e, table) ==
    LET groups == (8 * Len(e) + 5) \div 6
    IN ([g \in 1..groups |-> table[Rfc4648Sextet(e, g - 1) + 1]] \o <<>>)
           \o ([i \in 1..((4 - (groups % 4)) % 4) |-> 61] \o <<>>)

\* The number of "=" that end t.
RECURSIVE PadLen(_)
PadLen(t) == IF Len(t) > 0 /\ t[Len(t)] = 61 THEN 1 + PadLen(SubSeq(t, 1, Len(t) - 1)) ELSE 0

\* C12: for every byte sequence _xhs_b64_encode is RFC 4648 Base-64 over
\* the table of 64 distinct characters: the output has 4 * ceil(n / 3)
\* characters, ends in "==" when n mod 3 = 1, in "=" when n mod 3 = 2 and
\* in no padding when n mod 3 = 0, and decodes back to the input (so the
\* mapping is injective).
C12_XhsB64IsRfc4648 ==
    (pc = "done" /\ args.fn = "_xhs_b64_encode") =>
        /\ out[1].val = Rfc4648(args.arg, _XHS_B64_TABLE)
        /\ Len(out[1].val) = 4 * ((Len(args.arg) + 2) \div 3)
        /\ PadLen(out[1].val) = (3 - (Len(args.arg) % 3)) % 3
        /\ \A i \in 1..(Len(out[1].val) - PadLen(out[1].val)) : out[1].val[i] # 61
        /\ XhsB64Decode(out[1].val) = args.arg
        /\ Cardinality(Elems(_XHS_B64_TABLE)) = 64
        /\ Len(_XHS_B64_TABLE) = 64
        /\ 61 \notin Elems(_XHS_B64_TABLE)

\* An encoding of a sequence with one byte over, and of one with two over.
C12_Witness ==
    /\ pc = "done"
    /\ args.fn = "_xhs_b64_encode"
    /\ Len(args.arg) \in {4, 5}
    /\ args.arg[Len(args.arg)] % 16 # 0
    /\ PadLen(out[1].val) > 0

\* C13: for every input string _encode_utf8 returns exactly the UTF-8 byte
\* sequence of the string: every element is in 0..255, the bytes decode
\* back to the string, and a "%" or a character of the safe set yields its
\* own single byte.
C13_EncodeUtf8IsUtf8 ==
    (pc = "done" /\ args.fn = "_encode_utf8") =>
        /\ out[1].val = Utf8(args.arg)
        /\ IsBytes(out[1].val)
        /\ Utf8Decode(out[1].val) = args.arg
        /\ (\A i \in 1..Len(args.arg) : args.arg[i] = 37 \/ QuoteSafe(args.arg[i]))
               => out[1].val = args.arg
        /\ \A i \in 1..Len(args.arg) :
               (args.arg[i] = 37 \/ QuoteSafe(args.arg[i])) =>
                   /\ Len(Utf8(SubSeq(args.arg, 1, i - 1))) + 1 <= Len(out[1].val)
                   /\ out[1].val[Len(Utf8(SubSeq(args.arg, 1, i - 1))) + 1] = args.arg[i]
                   /\ Len(out[1].val) = Len(Utf8(SubSeq(args.arg, 1, i - 1))) + 1
                                          + Len(Utf8(SubSeq(args.arg, i + 1, Len(args.arg))))

\* A string with a literal "%", a safe character and a multi-byte character.
C13_Witness ==
    /\ pc = "done"
    /\ args.fn = "_encode_utf8"
    /\ \E i, j, k \in 1..Len(args.arg) :
          args.arg[i] = 37 /\ args.arg[j] = 126 /\ args.arg[k] > 65535
    /\ Len(out[1].val) > Len(args.arg)

(***************************************************************************)
(* SpecIds: one call of get_xhs_cookies, or two calls of                   *)
(* get_xhs_search_id with args.tick milliseconds passing between them.     *)
(***************************************************************************)
\* 0, 1, 1700000000000, 2^44 - 1, 2^44 milliseconds
IdClocks == {<<>>, <<1>>, <<26624, 53221, 395>>, <<65535, 65535, 4095>>, <<0, 0, 4096>>}

\* The 30 outcomes of random.choice, as indices into the 62 characters.
IdChoices(k) == [i \in 1..30 |-> (k * 17 + i * (k + 5)) % 62] \o <<>>

\* Outcomes after which, at 1700000000000 ms, the CRC-32 of d is 27263.
IdChoicesShortCrc ==
    <<45, 31, 59, 21, 51, 61, 34, 35, 17, 51, 9, 7, 35, 14, 53, 46, 54, 37, 55, 19,
      11, 20, 7, 24, 41, 1, 24, 9, 18, 25>>

\* int(random.uniform(0, 2147483646)): 0 <= t <= 2147483645
IdDraws == {0, 1, 35, 2147483645}

\* Milliseconds that pass between two calls.
IdTicks == {0, 1}

IdInit ==
    /\ pc = "call1"
    /\ \/ /\ args = [fn |-> "get_xhs_cookies"]
          /\ rng \in {[choices |-> c, uniform |-> <<>>] :
                         c \in {IdChoices(k) : k \in 0..MaxSeed} \cup {IdChoicesShortCrc}}
       \/ /\ args \in {[fn |-> "get_xhs_search_id", tick |-> d] : d \in IdTicks}
          /\ rng \in {[choices |-> <<>>, uniform |-> <<r1, r2>>] : r1 \in IdDraws, r2 \in IdDraws}
    /\ clock \in IdClocks
    /\ out = <<>>
    /\ SM3_IV = _SM3_IV
    /\ ab = NoSigner
    /\ frames = NoFrames
    /\ tables = ModuleTables
    /\ _trending_cache = NoEntries
    /\ _last_request = NoEntries
    /\ _client_pool = NoEntries
    /\ clients = <<>>
    /\ flock = NoLock
    /\ _cookie_cache = NoEntries
    /\ fs = NoFile
    /\ cm = <<>>
    /\ mrc_e = <<>>

GetXhsCookies ==
    /\ pc = "call1"
    /\ args.fn = "get_xhs_cookies"
    /\ out' = Append(out, Ret(get_xhs_cookies(clock, rng.choices)))
    /\ pc' = "done"
    /\ UNCHANGED <<args, SM3_IV, ab, clock, rng, mrc_e, frames, tables, fs, cm,
                 _trending_cache, _last_request, _client_pool, clients, flock, _cookie_cache>>

GetXhsSearchId ==
    /\ pc \in {"call1", "call2"}
    /\ args.fn = "get_xhs_search_id"
    /\ out' = Append(out, Ret(get_xhs_search_id(clock, rng.uniform[Len(out) + 1])))
    /\ pc' = IF pc = "call1" THEN "between" ELSE "done"
    /\ UNCHANGED <<args, SM3_IV, ab, clock, rng, mrc_e, frames, tables, fs, cm,
                 _trending_cache, _last_request, _client_pool, clients, flock, _cookie_cache>>

\* The wall clock between the two calls.
IdClockTick ==
    /\ pc = "between"
    /\ clock' = BigAdd(clock, args.tick)
    /\ pc' = "call2"
    /\ UNCHANGED <<args, out, SM3_IV, ab, rng, mrc_e, frames, tables, fs, cm,
                 _trending_cache, _last_request, _client_pool, clients, flock, _cookie_cache>>

IdNext == GetXhsCookies \/ GetXhsSearchId \/ IdClockTick

SpecIds == IdInit /\ [][IdNext]_vars

\* C14: for every clock value and every outcome of the random source,
\* get_xhs_cookies returns (device_token, session_id) with
\* len(device_token) == 52 and session_id the lowercase hex MD5 digest of
\* device_token.
C14_DeviceToken52 ==
    (pc = "done" /\ args.fn = "get_xhs_cookies") =>
        /\ Len(out[1].val[1]) = 52
        /\ out[1].val[2] = Md5HexDigest(out[1].val[1])

\* t * m for 0 <= m < 2^15
BigMulSmall(t, m) ==
    LET Step(st, i) ==
            [d |-> Append(st.d, (t[i] * m + st.c) % 65536),
             c |-> (t[i] * m + st.c) \div 65536]
        Carry(st) == IF st.c = 0 THEN st.d ELSE Append(st.d, st.c)
    IN IF m = 0 THEN <<>> ELSE Carry(ForRange(Step, [d |-> <<>>, c |-> 0], 1, Len(t)))

\* The value of a base-36 digit "0".."9", "A".."Z" (36 for anything else).
Base36Digit(c) == IF c \in 48..57 THEN c - 48 ELSE IF c \in 65..90 THEN c - 55 ELSE 36

\* The number a base-36 numeral stands for.
Base36Decode(t) ==
    LET Step(acc, i) == BigPlus(BigMulSmall(acc, 36), BigOfInt(Base36Digit(t[i])))
    IN ForRange(Step, <<>>, 1, Len(t))

\* a < b
BigLt(a, b) ==
    \/ Len(a) < Len(b)
    \/ /\ Len(a) = Len(b)
       /\ \E i \in 1..Len(a) : a[i] < b[i] /\ \A j \in (i + 1)..Len(a) : a[j] = b[j]

\* a <= b
BigLe(a, b) == a = b \/ BigLt(a, b)

\* C15: for two calls of get_xhs_search_id at timestamps t1 <= t2, t1 = t2
\* included, and any random draws, the integer decoded from the second
\* string is greater than or equal to the one decoded from the first.
C15_SearchIdNonDecreasing ==
    (pc = "done" /\ args.fn = "get_xhs_search_id") =>
        BigLe(Base36Decode(out[1].val), Base36Decode(out[2].val))

\* C15, as it holds: for t1 < t2 the second integer is greater than the
\* first whatever the draws; for t1 = t2 the two are ordered as the draws.
C15_SearchIdOrderedByTimeThenDraw ==
    (pc = "done" /\ args.fn = "get_xhs_search_id") =>
        /\ args.tick > 0 =>
               BigLt(Base36Decode(out[1].val), Base36Decode(out[2].val))
        /\ args.tick = 0 =>
               (BigLe(Base36Decode(out[1].val), Base36Decode(out[2].val))
                    <=> rng.uniform[1] <= rng.uniform[2])

\* Two calls one millisecond apart, the second with the smaller draw.
C15_Witness ==
    /\ pc = "done"
    /\ args.fn = "get_xhs_search_id"
    /\ args.tick > 0
    /\ rng.uniform[1] > rng.uniform[2]
    /\ Len(out) = 2

\* (ms << 64) + r written out digit by digit, for 0 <= r < 2^32.
SearchIdNum(ms, r) ==
    IF Len(ms) = 0 THEN BigNorm(<<r % 65536, r \div 65536>>)
    ELSE <<r % 65536, r \div 65536, 0, 0>> \o ms

\* C16: get_xhs_search_id renders num = (timestamp_ms << 64) + r, with
\* 0 <= r <= 2^31 - 2, in base 36: only the symbols 0-9A-Z, no leading
\* "0" unless num is 0 (rendered "0"), and decoding gives back num.
C16_SearchIdBase36 ==
    (pc \in {"between", "done"} /\ args.fn = "get_xhs_search_id") =>
        /\ rng.uniform[Len(out)] \in 0..2147483646
        /\ \A i \in 1..Len(out[Len(out)].val) : Base36Digit(out[Len(out)].val[i]) < 36
        /\ Len(out[Len(out)].val) >= 1
        /\ out[Len(out)].val[1] = 48 => out[Len(out)].val = <<48>>
        /\ out[Len(out)].val = <<48>> <=> SearchIdNum(clock, rng.uniform[Len(out)]) = <<>>
        /\ Base36Decode(out[Len(out)].val) = SearchIdNum(clock, rng.uniform[Len(out)])

\* A search id of a present-day clock reading with the largest draw.
C16_Witness ==
    /\ pc = "done"
    /\ args.fn = "get_xhs_search_id"
    /\ clock = <<26625, 53221, 395>>
    /\ rng.uniform[2] = 2147483645
    /\ Len(out[2].val) = 21

(***************************************************************************)
(* SpecConc: two threads call sign on one _ABogus instance.  A thread can  *)
(* be suspended between any two statements; a step is the code from one    *)
(* read of shared state (the clock, the random source, _SM3_IV, the        *)
(* instance's fields) up to the next.                                      *)
(***************************************************************************)
ConcThreads == {1, 2}

\* sign("a=1", "GET") and sign("aid=6383&aweme_id=123", "POST")
ConcCalls ==
    <<[params |-> <<97, 61, 49>>, method |-> <<71, 69, 84>>],
      [params |-> <<97, 105, 100, 61, 54, 51, 56, 51, 38, 97, 119, 101, 109, 101, 95, 105,
                    100, 61, 49, 50, 51>>,
       method |-> <<80, 79, 83, 84>>]>>

\* The instance both threads use: _ABogus(_DEFAULT_UA)
ConcSigner == _ABogus_init(_SM3_IV, _DEFAULT_UA)

\* The locals of a call that has not assigned any; jitter and draws record
\* what the random source handed to the call.
ConcFrame ==
    [start_time |-> <<>>, end_time |-> <<>>, params_code |-> <<>>, method_code |-> <<>>,
     string_2 |-> <<>>, string_1 |-> <<>>, jitter |-> 0, draws |-> <<>>]

ConcInit ==
    /\ pc = [i \in ConcThreads |-> "time"]
    /\ args = ConcCalls
    /\ out = [i \in ConcThreads |-> <<>>]
    /\ SM3_IV = _SM3_IV
    /\ ab = ConcSigner
    /\ frames = [i \in ConcThreads |-> ConcFrame]
    /\ tables = ModuleTables
    /\ _trending_cache = NoEntries
    /\ _last_request = NoEntries
    /\ _client_pool = NoEntries
    /\ clients = <<>>
    /\ flock = NoLock
    /\ _cookie_cache = NoEntries
    /\ fs = NoFile
    /\ cm = <<>>
    /\ mrc_e = <<>>
    /\ clock = <<65535, 65535, 399>>
    /\ rng = [jitter |-> <<4, 8>>, draws |-> <<0, 9999, 2731, 4242, 577, 9977>>]

\* start_time = int(time.time() * 1000)
ConcTime(i) ==
    /\ pc[i] = "time"
    /\ frames' = _ABogus_sign_store(frames, i, [start_time |-> clock])
    /\ pc' = [pc EXCEPT ![i] = "randint"]
    /\ UNCHANGED <<args, out, SM3_IV, ab, clock, rng, mrc_e, tables, fs, cm,
                 _trending_cache, _last_request, _client_pool, clients, flock, _cookie_cache>>

\* end_time = start_time + randint(4, 8)
ConcRandint(i) ==
    /\ pc[i] = "randint"
    /\ frames' = _ABogus_sign_store(frames, i,
                     [end_time |-> BigAdd(frames[i].start_time, Head(rng.jitter)),
                      jitter |-> Head(rng.jitter)])
    /\ rng' = [rng EXCEPT !.jitter = Tail(rng.jitter)]
    /\ pc' = [pc EXCEPT ![i] = "codes"]
    /\ UNCHANGED <<args, out, SM3_IV, ab, clock, mrc_e, tables, fs, cm,
                 _trending_cache, _last_request, _client_pool, clients, flock, _cookie_cache>>

\* params_code = _sm3_double(params + "cus"); method_code likewise
ConcCodes(i) ==
    /\ pc[i] = "codes"
    /\ frames' = _ABogus_sign_store(frames, i,
                     [params_code |-> _sm3_double(SM3_IV, Utf8(args[i].params \o Cus)),
                      method_code |-> _sm3_double(_sm3_double_iv(SM3_IV),
                                                  Utf8(args[i].method \o Cus))])
    /\ SM3_IV' = _ABogus_sign_iv(SM3_IV)
    /\ pc' = [pc EXCEPT ![i] = "a"]
    /\ UNCHANGED <<args, out, ab, clock, rng, mrc_e, tables, fs, cm,
                 _trending_cache, _last_request, _client_pool, clients, flock, _cookie_cache>>

\* a = [...]; check; a.extend(self.browser_code); string_2 = _rc4(..., "y")
ConcBuffer(i) ==
    /\ pc[i] = "a"
    /\ frames' = _ABogus_sign_store(frames, i,
                     [string_2 |->
                          _rc4(_ABogus_sign_buffer(ab,
                                   _ABogus_sign_list(ab, frames[i].params_code,
                                       frames[i].method_code, frames[i].start_time,
                                       frames[i].end_time)),
                               <<121>>).val])
    /\ pc' = [pc EXCEPT ![i] = "s1"]
    /\ UNCHANGED <<args, out, SM3_IV, ab, clock, rng, mrc_e, tables, fs, cm,
                 _trending_cache, _last_request, _client_pool, clients, flock, _cookie_cache>>

\* s1 = _random_list(b=170, c=85, d=1, e=2, f=5, g=45 & 170)
ConcS1(i) ==
    /\ pc[i] = "s1"
    /\ frames' = _ABogus_sign_store(frames, i,
                     [string_1 |-> _random_list(Head(rng.draws), 170, 85, 1, 2, 5,
                                                BitAnd(45, 170)),
                      draws |-> <<Head(rng.draws)>>])
    /\ rng' = [rng EXCEPT !.draws = Tail(rng.draws)]
    /\ pc' = [pc EXCEPT ![i] = "s2"]
    /\ UNCHANGED <<args, out, SM3_IV, ab, clock, mrc_e, tables, fs, cm,
                 _trending_cache, _last_request, _client_pool, clients, flock, _cookie_cache>>

\* s2 = _random_list(b=170, c=85, d=1)
ConcS2(i) ==
    /\ pc[i] = "s2"
    /\ frames' = _ABogus_sign_store(frames, i,
                     [string_1 |-> frames[i].string_1
                                       \o _random_list(Head(rng.draws), 170, 85, 1, 0, 0, 0),
                      draws |-> Append(frames[i].draws, Head(rng.draws))])
    /\ rng' = [rng EXCEPT !.draws = Tail(rng.draws)]
    /\ pc' = [pc EXCEPT ![i] = "s3"]
    /\ UNCHANGED <<args, out, SM3_IV, ab, clock, mrc_e, tables, fs, cm,
                 _trending_cache, _last_request, _client_pool, clients, flock, _cookie_cache>>

\* s3 = _random_list(b=170, c=85, d=1, f=5);
\* return _custom_b64(string_1 + string_2, "s4")
ConcS3(i) ==
    /\ pc[i] = "s3"
    /\ frames' = _ABogus_sign_store(frames, i,
                     [string_1 |-> frames[i].string_1
                                       \o _random_list(Head(rng.draws), 170, 85, 1, 0, 5, 0),
                      draws |-> Append(frames[i].draws, Head(rng.draws))])
    /\ out' = [out EXCEPT ![i] = <<Ret(_custom_b64(frames'[i].string_1 \o frames'[i].string_2,
                                                   "s4"))>>]
    /\ rng' = [rng EXCEPT !.draws = Tail(rng.draws)]
    /\ pc' = [pc EXCEPT ![i] = "done"]
    /\ UNCHANGED <<args, SM3_IV, ab, clock, mrc_e, tables, fs, cm,
                 _trending_cache, _last_request, _client_pool, clients, flock, _cookie_cache>>

\* A millisecond passes (while a call has yet to read the clock: later the
\* clock is not read again).
ConcClockTick ==
    /\ clock = <<65535, 65535, 399>>
    /\ \E i \in ConcThreads : pc[i] = "time"
    /\ clock' = BigAdd(clock, 1)
    /\ UNCHANGED <<pc, args, out, SM3_IV, ab, rng, mrc_e, frames, tables, fs, cm,
                 _trending_cache, _last_request, _client_pool, clients, flock, _cookie_cache>>

ConcNext ==
    \/ \E i \in ConcThreads :
          \/ ConcTime(i)
          \/ ConcRandint(i)
          \/ ConcCodes(i)
          \/ ConcBuffer(i)
          \/ ConcS1(i)
          \/ ConcS2(i)
          \/ ConcS3(i)
    \/ ConcClockTick

SpecConc == ConcInit /\ [][ConcNext]_vars

\* What each call hashes, computed once: the same in every interleaving.
ConcAloneCodes ==
    [i \in ConcThreads |->
        [params_code |-> _sm3_double(_SM3_IV, Utf8(ConcCalls[i].params \o Cus)),
         method_code |-> _sm3_double(_SM3_IV, Utf8(ConcCalls[i].method \o Cus))]]

\* What the call of thread i returns when it runs alone on the instance, at
\* the clock reading and with the random outcomes the call was handed.
ConcAlone(i) ==
    _custom_b64(
        _gen_string_1(frames[i].draws)
        \o _rc4(_ABogus_sign_buffer(ConcSigner,
                    _ABogus_sign_list(ConcSigner, ConcAloneCodes[i].params_code,
                                      ConcAloneCodes[i].method_code,
                                      frames[i].start_time,
                                      BigAdd(frames[i].start_time, frames[i].jitter))),
                <<121>>).val,
        "s4")

\* C17: a signer instance may be shared by concurrent callers without
\* synchronization: in every interleaving of the sign calls on one _ABogus
\* instance each call returns what it would return alone.
C17_SharedSignerSafe ==
    \A i \in ConcThreads :
        pc[i] = "done" => (Returned(out[i][1]) /\ out[i][1].val = ConcAlone(i))

\* Both calls have returned, and their steps were interleaved: thread 2
\* took the first jitter and the second draw, thread 1 the first draw.
C17_Witness ==
    /\ \A i \in ConcThreads : pc[i] = "done"
    /\ frames[2].jitter = 4
    /\ frames[1].draws[1] = 0
    /\ frames[2].draws[1] = 9999
    /\ frames[1].draws[2] = 2731

(***************************************************************************)
(* SpecFrame: up to MaxCalls calls, in any order, of a hash, a cipher, an  *)
(* encoder, the two signers and an identity generator, on one module, one  *)
(* signer instance and the same objects of the caller.                     *)
(***************************************************************************)
\* The instance the calls share: _ABogus("Mozilla/5.0")
FrameSigner == _ABogus_init(_SM3_IV, <<77, 111, 122, 105, 108, 108, 97, 47, 53, 46, 48>>)

\* The caller's objects: a list of bytes (of 3, 56 or 64 values), a plaintext
\* and key, the signers' arguments and the dict given as data.
FrameInputs ==
    {[data |-> EncBytes(n, 1), plaintext |-> EncBytes(n, 2), key |-> <<121>>,
      params |-> <<97, 61, 49>>, method |-> <<71, 69, 84>>,
      uri |-> <<47, 97, 112, 105>>,
      dict |-> [dict |-> TRUE,
                items |-> << <<<<107>>, JStr(<<21654, 21857>>)>> >>],
      a1 |-> <<97, 49>>, b1 |-> <<>>] : n \in {3, 56, 64}}

FrameInit ==
    /\ pc = "ready"
    /\ args \in FrameInputs
    /\ out = <<>>
    /\ SM3_IV = _SM3_IV
    /\ ab = FrameSigner
    /\ frames = NoFrames
    /\ tables = ModuleTables
    /\ _trending_cache = NoEntries
    /\ _last_request = NoEntries
    /\ _client_pool = NoEntries
    /\ clients = <<>>
    /\ flock = NoLock
    /\ _cookie_cache = NoEntries
    /\ fs = NoFile
    /\ cm = <<>>
    /\ mrc_e = <<>>
    /\ clock = <<26624, 53221, 395>>
    /\ rng = [jitter |-> 4, draws |-> <<2731, 4242, 9977>>, uniform |-> 35]

\* _sm3_hash(data)
FrameHash ==
    /\ Len(out) < MaxCalls
    /\ out' = Append(out, [fn |-> "_sm3_hash", r |-> Ret(_sm3_hash(SM3_IV, args.data))])
    /\ SM3_IV' = _sm3_hash_iv(SM3_IV)
    /\ args' = [args EXCEPT !.data = _sm3_hash_data(args.data)]
    /\ UNCHANGED <<pc, ab, clock, rng, mrc_e, frames, tables, fs, cm,
                 _trending_cache, _last_request, _client_pool, clients, flock, _cookie_cache>>

\* _rc4(plaintext, key): both are str
FrameCipher ==
    /\ Len(out) < MaxCalls
    /\ out' = Append(out, [fn |-> "_rc4", r |-> _rc4(args.plaintext, args.key)])
    /\ UNCHANGED <<pc, args, SM3_IV, ab, clock, rng, mrc_e, frames, tables, fs, cm,
                 _trending_cache, _last_request, _client_pool, clients, flock, _cookie_cache>>

\* _xhs_b64_encode(data)
FrameEncode ==
    /\ Len(out) < MaxCalls
    /\ out' = Append(out, [fn |-> "_xhs_b64_encode", r |-> Ret(_xhs_b64_encode(args.data))])
    /\ args' = [args EXCEPT !.data = _xhs_b64_encode_e(args.data)]
    /\ UNCHANGED <<pc, SM3_IV, ab, clock, rng, mrc_e, frames, tables, fs, cm,
                 _trending_cache, _last_request, _client_pool, clients, flock, _cookie_cache>>

\* ab.sign(params, method)
FrameSign ==
    /\ Len(out) < MaxCalls
    /\ out' = Append(out, [fn |-> "sign",
                           r |-> Ret(_ABogus_sign(ab, SM3_IV, args.params, args.method,
                                                  clock, rng.jitter, rng.draws))])
    /\ SM3_IV' = _ABogus_sign_iv(SM3_IV)
    /\ ab' = _ABogus_sign_self(ab)
    /\ UNCHANGED <<pc, args, clock, rng, mrc_e, frames, tables, fs, cm,
                 _trending_cache, _last_request, _client_pool, clients, flock, _cookie_cache>>

\* sign_xiaohongshu(uri, dict, a1, b1)
FrameSignXhs ==
    /\ Len(out) < MaxCalls
    /\ out' = Append(out, [fn |-> "sign_xiaohongshu",
                           r |-> sign_xiaohongshu(args.uri, args.dict, args.a1, args.b1, clock)])
    /\ args' = [args EXCEPT !.dict = _sign_xiaohongshu_data(args.dict)]
    /\ mrc_e' = Append(mrc_e,
                       _sign_xiaohongshu_x9_arg(BigStr(clock),
                           _sign_xiaohongshu_x_s(clock, args.uri, args.dict)))
    /\ UNCHANGED <<pc, SM3_IV, ab, clock, rng, frames, tables, fs, cm,
                 _trending_cache, _last_request, _client_pool, clients, flock, _cookie_cache>>

\* get_xhs_search_id()
FrameSearchId ==
    /\ Len(out) < MaxCalls
    /\ out' = Append(out, [fn |-> "get_xhs_search_id",
                           r |-> Ret(get_xhs_search_id(clock, rng.uniform))])
    /\ UNCHANGED <<pc, args, SM3_IV, ab, clock, rng, mrc_e, frames, tables, fs, cm,
                 _trending_cache, _last_request, _client_pool, clients, flock, _cookie_cache>>

FrameNext ==
    FrameHash \/ FrameCipher \/ FrameEncode \/ FrameSign \/ FrameSignXhs \/ FrameSearchId

SpecFrame == FrameInit /\ [][FrameNext]_vars

Sm3Padded(m) ==
    m \o <<128>> \o ([i \in 1..((119 - Len(m)) % 64) |-> 0] \o <<>>)
      \o <<0, 0, 0, 0, ((8 * Len(m)) \div 16777216) % 256, ((8 * Len(m)) \div 65536) % 256,
           ((8 * Len(m)) \div 256) % 256, (8 * Len(m)) % 256>>

\* The compression function applied to the 64-byte blocks of p in order.
Sm3OverBlocks(p) ==
    LET Step(reg, k) == _sm3_compress(reg, SubSeq(p, 64 * (k - 1) + 1, 64 * k))
    IN _sm3_bytes(ForRange(Step, _SM3_IV, 1, Len(p) \div 64))

\* C20: for every byte sequence of length n (0, 55, 56, 63, 64, 65
\* included) _sm3_hash returns exactly 32 byte values, computed over the
\* message followed by 0x80, zeros up to 56 modulo 64 and the 8-byte
\* big-endian bit length 8n: floor((n + 8) / 64) + 1 blocks are compressed,
\* in message order.
C20_Sm3PaddingAndBlocks ==
    pc = "done" =>
        /\ Len(out[1]) = 32
        /\ IsBytes(out[1])
        /\ Len(Sm3Padded(args.data)) % 64 = 0
        /\ Len(Sm3Padded(args.data)) \div 64 = ((Len(args.data) + 8) \div 64) + 1
        /\ (Len(_sm3_chunks(args.data)) - 1) + (Len(_sm3_last(args.data)) \div 64)
               = ((Len(args.data) + 8) \div 64) + 1
        /\ Len(_sm3_last(args.data)) % 64 = 0
        /\ out[1] = Sm3OverBlocks(Sm3Padded(args.data))

\* A message of 56 bytes: the padding takes a second block.
C20_Witness ==
    /\ pc = "done"
    /\ Len(args.data) = 56
    /\ Len(_sm3_last(args.data)) = 128
    /\ Len(out[1]) = 32

(***************************************************************************)
(* SpecCookie: a CookieManager is constructed on the cookie file; it       *)
(* either answers get_cookies(ask), or stores an entry for args.platform,  *)
(* saves, and a second CookieManager constructed afterwards answers.       *)
(***************************************************************************)
\* "weibo", "zhihu"
CookiePlatforms == {<<119, 101, 105, 98, 111>>, <<122, 104, 105, 104, 117>>}

\* "cookies"
CookiesKey == <<99, 111, 111, 107, 105, 101, 115>>

\* The entry {"cookies": {...}} for the cookie map with the given items.
CookieEntry(items) == PyDict(<<[key |-> CookiesKey, val |-> PyDict(items)]>>)

\* Cookie maps to store: {"<<83, 85, 66>>": "abc"}, {}, one with a quote, a backslash,
\* CJK text and an emoji, one with control characters, {"web_session": ""},
\* and one with a lone surrogate.
CookieMaps ==
    {<<[key |-> <<83, 85, 66>>, val |-> PyStr(<<97, 98, 99>>)]>>,
     <<>>,
     <<[key |-> <<83, 85, 66>>, val |-> PyStr(<<97, 34, 98, 92, 99>>)],
       [key |-> <<107>>, val |-> PyStr(<<20013, 25991, 128512>>)]>>,
     <<[key |-> <<110>>, val |-> PyStr(<<108, 10, 98, 9, 1, 127>>)]>>,
     <<[key |-> <<119, 101, 98, 95, 115, 101, 115, 115, 105, 111, 110>>, val |-> PyStr(<<>>)]>>,
     <<[key |-> <<97>>, val |-> PyStr(<<55296>>)]>>}

\* The cookie file before the first construction: missing; empty; saved
\* earlier with an entry for zhihu, or for weibo; "not json"; a saved file
\* cut off; the bytes FF FE 7B 7D; a saved file cut inside a character;
\* "abc" in quotes; " {} " and a newline; a byte order mark and {}; an
\* object written compactly with escapes.
CookieFiles ==
    {[exists |-> FALSE],
     [exists |-> TRUE, bytes |-> <<>>],
     _save(PyDict(<<[key |-> <<122, 104, 105, 104, 117>>,
                     val |-> CookieEntry(<<[key |-> <<122>>, val |-> PyStr(<<116>>)]>>)]>>)).file,
     _save(PyDict(<<[key |-> <<119, 101, 105, 98, 111>>,
                     val |-> CookieEntry(<<[key |-> <<83, 85, 66>>, val |-> PyStr(<<111, 108, 100>>)]>>)]>>)).file,
     [exists |-> TRUE, bytes |-> <<110, 111, 116, 32, 106, 115, 111, 110>>],
     [exists |-> TRUE, bytes |-> <<123, 10, 32, 32, 34, 122, 104, 105, 104, 117, 34, 58, 32, 123, 10, 32, 32, 32, 32, 34, 99, 111, 111, 107>>],
     [exists |-> TRUE, bytes |-> <<255, 254, 123, 125>>],
     [exists |-> TRUE, bytes |-> <<123, 10, 32, 32, 34, 97, 34, 58, 32, 34, 228, 184>>],
     [exists |-> TRUE, bytes |-> <<34, 97, 98, 99, 34>>],
     [exists |-> TRUE, bytes |-> <<32, 123, 125, 32, 10>>],
     [exists |-> TRUE, bytes |-> <<239, 187, 191, 123, 125>>],
     [exists |-> TRUE, bytes |-> <<123, 34, 119, 101, 105, 98, 111, 34, 58, 123, 34, 99, 111, 111, 107, 105, 101, 115, 34, 58, 123, 34, 83, 92, 117, 48, 48, 53, 53, 66, 34, 58, 34, 92, 117, 100, 56, 51, 100, 92, 117, 100, 101, 48, 48, 92, 110, 92, 47, 34, 125, 125, 44, 34, 119, 101, 105, 98, 111, 34, 58, 123, 34, 99, 111, 111, 107, 105, 101, 115, 34, 58, 123, 34, 120, 34, 58, 34, 121, 34, 125, 125, 125>>]}

CookieInit ==
    /\ pc = "new1"
    /\ args \in {[platform |-> <<119, 101, 105, 98, 111>>, cookies |-> c, ask |-> a] :
                    c \in CookieMaps, a \in CookiePlatforms}
    /\ fs \in CookieFiles
    /\ cm = <<>>
    /\ out = <<>>
    /\ SM3_IV = _SM3_IV
    /\ ab = NoSigner
    /\ frames = NoFrames
    /\ tables = ModuleTables
    /\ _trending_cache = NoEntries
    /\ _last_request = NoEntries
    /\ _client_pool = NoEntries
    /\ clients = <<>>
    /\ flock = NoLock
    /\ _cookie_cache = NoEntries
    /\ mrc_e = <<>>
    /\ clock = NoClock
    /\ rng = NoRng

\* cm = CookieManager(): self._data = self._load()
CookieManagerNew ==
    /\ pc \in {"new1", "new2"}
    /\ \E r \in {_load(fs)} :
          IF Returned(r)
          THEN /\ cm' = Append(cm, r.val)
               /\ pc' = IF pc = "new1" THEN "ready1" ELSE "ready2"
               /\ out' = out
          ELSE /\ out' = Append(out, r)
               /\ pc' = "raised_new"
               /\ cm' = cm
    /\ UNCHANGED <<args, SM3_IV, ab, clock, rng, mrc_e, frames, tables, fs,
                 _trending_cache, _last_request, _client_pool, clients, flock, _cookie_cache>>

\* cm._data[platform] = {"cookies": cookies}; cm._save()
CookieStoreSave ==
    /\ pc = "ready1"
    /\ IF cm[1].t # "dict"
       THEN /\ out' = Append(out, Raise("TypeError"))
            /\ pc' = "raised_save"
            /\ UNCHANGED <<cm, fs>>
       ELSE /\ cm' = [cm EXCEPT ![1] = PyDict(PyDictSet(cm[1].items, args.platform,
                                                         CookieEntry(args.cookies)))]
            /\ fs' = _save(cm'[1]).file
            /\ IF _save(cm'[1]).exc = "None"
               THEN pc' = "new2" /\ out' = out
               ELSE pc' = "raised_save" /\ out' = Append(out, Raise(_save(cm'[1]).exc))
    /\ UNCHANGED <<args, SM3_IV, ab, clock, rng, mrc_e, frames, tables,
                 _trending_cache, _last_request, _client_pool, clients, flock, _cookie_cache>>

\* cm.get_cookies(ask), on the manager constructed last
CookieGet ==
    /\ pc \in {"ready1", "ready2"}
    /\ out' = Append(out, get_cookies(cm[Len(cm)], args.ask))
    /\ pc' = "done"
    /\ UNCHANGED <<args, SM3_IV, ab, clock, rng, mrc_e, frames, tables, fs, cm,
                 _trending_cache, _last_request, _client_pool, clients, flock, _cookie_cache>>

CookieNext == CookieManagerNew \/ CookieStoreSave \/ CookieGet

SpecCookie == CookieInit /\ [][CookieNext]_vars

\* The file is missing or does not hold valid JSON.
CookieFileInvalid(f) ==
    \/ ~f.exists
    \/ ~Returned(Utf8Strict(f.bytes))
    \/ ~Returned(JsonLoads(Utf8Strict(f.bytes).val))

\* C19: CookieManager save/load round trip: after one manager stores an
\* entry and _save completes, a CookieManager constructed afterwards on the
\* same cookie file returns exactly the saved cookie map from
\* get_cookies(platform); for a platform with no entry, and when the file
\* is missing or not valid JSON, get_cookies returns None.
C19_SaveLoadRoundTrip ==
    /\ (pc = "done" /\ Len(cm) = 2 /\ args.ask = args.platform)
           => out[1] = Ret(PyDict(args.cookies))
    /\ (pc = "done" /\ cm[Len(cm)].t = "dict"
          /\ PyDictIndex(cm[Len(cm)].items, args.ask) = 0)
           => out[1] = Ret(PyNone)
    /\ (Len(cm) <= 1 /\ pc \in {"ready1", "raised_new", "done"} /\ CookieFileInvalid(fs))
           => (pc # "raised_new" /\ (pc = "done" => out[1] = Ret(PyNone)))

\* The same with the last part kept to files that are missing or decode as
\* UTF-8: this much holds.
C19_SaveLoadRoundTripDecodable ==
    /\ (pc = "done" /\ Len(cm) = 2 /\ args.ask = args.platform)
           => out[1] = Ret(PyDict(args.cookies))
    /\ (pc = "done" /\ cm[Len(cm)].t = "dict"
          /\ PyDictIndex(cm[Len(cm)].items, args.ask) = 0)
           => out[1] = Ret(PyNone)
    /\ (Len(cm) <= 1 /\ pc \in {"ready1", "raised_new", "done"} /\ CookieFileInvalid(fs)
          /\ (fs.exists => Returned(Utf8Strict(fs.bytes))))
           => (pc # "raised_new" /\ (pc = "done" => out[1] = Ret(PyNone)))

(***************************************************************************)
(* SpecSign: one call of sign on the signer _ABogus(_DEFAULT_UA), at a     *)
(* clock reading, with the jitter and the three draws the random source    *)
(* hands out; frames keeps the locals of the call as it returns.           *)
(***************************************************************************)
\* 0; 2^32 - 1; 2^40 - 5, where a jitter of 5 or more carries end_time to
\* 2^40; 1700000000000; 400 * 2^32 - 1
SignClocks ==
    {<<>>, <<65535, 65535>>, <<65531, 65535, 255>>, <<26624, 53221, 395>>,
     <<65535, 65535, 399>>}

\* randint(4, 8)
SignJitters == {4, 8}

\* int(random.random() * 10000) of the three draws of one call
SignDraws ==
    {<<0, 0, 0>>, <<9999, 9999, 9999>>, <<2731, 4242, 9977>>, <<255, 256, 257>>,
     <<85, 170, 8789>>, <<4242, 4242, 4245>>}

SignInit ==
    /\ pc = "sign"
    /\ args = [params |-> <<97, 61, 49>>, method |-> <<71, 69, 84>>]
    /\ out = <<>>
    /\ SM3_IV = _SM3_IV
    /\ ab = ConcSigner
    /\ frames = NoFrames
    /\ tables = ModuleTables
    /\ _trending_cache = NoEntries
    /\ _last_request = NoEntries
    /\ _client_pool = NoEntries
    /\ clients = <<>>
    /\ flock = NoLock
    /\ _cookie_cache = NoEntries
    /\ fs = NoFile
    /\ cm = <<>>
    /\ mrc_e = <<>>
    /\ clock \in SignClocks
    /\ rng \in {[jitter |-> j, draws |-> d] : j \in SignJitters, d \in SignDraws}

\* ab.sign(params, method)
SignCall ==
    /\ pc = "sign"
    /\ frames' = <<_ABogus_sign_frame(ab, SM3_IV, args.params, args.method,
                                      clock, rng.jitter, rng.draws)>>
    /\ out' = <<Ret(frames'[1].result)>>
    /\ SM3_IV' = _ABogus_sign_iv(SM3_IV)
    /\ pc' = "done"
    /\ UNCHANGED <<args, ab, clock, rng, mrc_e, tables, fs, cm,
                 _trending_cache, _last_request, _client_pool, clients, flock, _cookie_cache>>

SignNext == SignCall

SpecSign == SignInit /\ [][SignNext]_vars

\* C21: for every clock value, every element of the buffer that sign passes
\* to the stream cipher (the 44 record elements, the fingerprint elements and
\* the XOR checksum element) is a byte value in the range 0..255.
C21_BufferElementsAreBytes ==
    pc = "done" => \A i \in 1..Len(frames[1].a) : frames[1].a[i] \in 0..255

\* The same for calls whose end_time is below 2^40 ms: this much holds.
C21_BufferElementsAreBytesBelow2Pow40 ==
    (pc = "done" /\ BigShr32(frames[1].end_time) < 256)
        => \A i \in 1..Len(frames[1].a) : frames[1].a[i] \in 0..255

\* The elements of string_1 at the positions of one kind (1: low byte and
\* 0xAA, 2: low byte and 0x55, 3: high byte and 0xAA, 4: high byte and 0x55)
\* can all come from the byte v.
MagicFrom(string_1, kind, v) ==
    \A g \in 0..2 :
        string_1[4 * g + kind]
            = BitOr(BitAnd(v, IF kind \in {1, 3} THEN 170 ELSE 85),
                    << <<1, 2, 5, 40>>, <<1, 0, 0, 0>>, <<1, 0, 5, 0>> >>[g + 1][kind])

\* C22: the 12-element magic block is derived from one random draw: all
\* three 4-element groups are computed from the same random value r (only
\* the fixed offsets differ per group), each element being (low or high byte
\* of int(r)) AND 0xAA or AND 0x55, OR a fixed offset.
C22_MagicBlockOneDraw ==
    pc = "done" =>
        /\ Len(frames[1].string_1) = 12
        /\ \E lo \in 0..255 : MagicFrom(frames[1].string_1, 1, lo)
                                /\ MagicFrom(frames[1].string_1, 2, lo)
        /\ \E hi \in 0..39 : MagicFrom(frames[1].string_1, 3, hi)
                                /\ MagicFrom(frames[1].string_1, 4, hi)

\* C22 as the code has it: group g (of 4 elements) is computed from the g-th
\* random draw of the call, each element being (low or high byte of the
\* draw's integer part) AND 0xAA or AND 0x55, OR the group's fixed offset.
C22_MagicBlockDrawPerGroup ==
    pc = "done" =>
        /\ Len(frames[1].string_1) = 12
        /\ \A g \in 0..2 : \A kind \in 1..4 :
              frames[1].string_1[4 * g + kind]
                  = BitOr(BitAnd(IF kind \in {1, 2} THEN rng.draws[g + 1] % 256
                                                    ELSE rng.draws[g + 1] \div 256,
                                 IF kind \in {1, 3} THEN 170 ELSE 85),
                          << <<1, 2, 5, 40>>, <<1, 0, 0, 0>>, <<1, 0, 5, 0>> >>[g + 1][kind])

\* The claim's case: three draws that differ in the masked bits of both bytes.
C22_Witness ==
    /\ pc = "done"
    /\ rng.draws = <<2731, 4242, 9977>>
    /\ frames[1].string_1[1] # frames[1].string_1[5]
    /\ frames[1].string_1[3] # frames[1].string_1[11]

\* The XOR of the elements of a sequence, bit by bit.
XorAll(s) == LET Step(x, i) == XorBits(x, s[i]) IN ForRange(Step, 0, 1, Len(s))

\* C23: in every sign call the plaintext buffer is the 44-element record,
\* then the fingerprint elements, then one checksum element equal to the XOR
\* of the 44 record elements only, so that the XOR of the first 44 elements
\* and the last element is 0; the buffer is encrypted with key "y" and the
\* magic block is prepended unencrypted.
C23_BufferLayoutAndChecksum ==
    pc = "done" =>
        LET a == frames[1].a
            n == Len(ab.browser_code)
        IN /\ Len(a) = 44 + n + 1
           /\ a[1] = 44 /\ a[41] = n
           /\ SubSeq(a, 45, 44 + n) = ab.browser_code
           /\ a[Len(a)] = XorAll(SubSeq(a, 1, 44))
           /\ XorAll(SubSeq(a, 1, 44) \o <<a[Len(a)]>>) = 0
           /\ Len(frames[1].string_2) = Len(a)
           /\ _rc4(frames[1].string_2, <<121>>).val = a
           /\ out[1] = Ret(_custom_b64(frames[1].string_1 \o frames[1].string_2, "s4"))
           /\ frames[1].string_1 = _gen_string_1(rng.draws)

\* The claim's case: a call whose fingerprint elements do not XOR to 0, so
\* that a checksum over them too would differ, and whose record holds an
\* element above 255.
C23_Witness ==
    /\ pc = "done"
    /\ clock = <<26624, 53221, 395>>
    /\ XorAll(ab.browser_code) # 0
    /\ frames[1].a[37] = 395
    /\ frames[1].a[Len(frames[1].a)] = XorAll(SubSeq(frames[1].a, 1, 44))
    /\ frames[1].string_2 # frames[1].a

(***************************************************************************)
(* SpecB64: one call of _custom_b64(s, table_key) on a string of character *)
(* codes (bytes, and codes above 255 such as the cipher yields for record  *)
(* elements above 255) with each of the alphabets s0..s4.                  *)
(***************************************************************************)
B64TableKeys == {"s0", "s1", "s2", "s3", "s4"}

\* Strings of codes above 255: n codes from 256 up, or from 32767 down.
B64Wide(n, k) == [i \in 1..n |-> IF k % 2 = 0 THEN 256 + ((139 * k + 57 * i) % 256)
                                               ELSE 32767 - ((1031 * k + 7 * i) % 4096)] \o <<>>

B64Strings ==
    UNION {{EncBytes(n, k) : k \in 0..MaxSeed} \cup {B64Wide(n, k) : k \in 0..MaxSeed}
             \cup {[i \in 1..n |-> 0] \o <<>>, [i \in 1..n |-> 255] \o <<>>} :
           n \in 0..MaxCodecLen}

B64Init ==
    /\ pc = "call"
    /\ args \in {[s |-> e, table_key |-> k] : e \in B64Strings, k \in B64TableKeys}
    /\ out = <<>>
    /\ SM3_IV = _SM3_IV
    /\ ab = NoSigner
    /\ frames = NoFrames
    /\ tables = ModuleTables
    /\ _trending_cache = NoEntries
    /\ _last_request = NoEntries
    /\ _client_pool = NoEntries
    /\ clients = <<>>
    /\ flock = NoLock
    /\ _cookie_cache = NoEntries
    /\ fs = NoFile
    /\ cm = <<>>
    /\ mrc_e = <<>>
    /\ clock = NoClock
    /\ rng = NoRng

CustomB64Call ==
    /\ pc = "call"
    /\ out' = Append(out, Ret(_custom_b64(args.s, args.table_key)))
    /\ pc' = "done"
    /\ UNCHANGED <<args, SM3_IV, ab, clock, rng, mrc_e, frames, tables, fs, cm,
                 _trending_cache, _last_request, _client_pool, clients, flock, _cookie_cache>>

B64Next == CustomB64Call

SpecB64 == B64Init /\ [][B64Next]_vars

\* a | b, bit by bit
RECURSIVE OrBits(_, _)
OrBits(a, b) ==
    IF a = 0 THEN b
    ELSE IF b = 0 THEN a
    ELSE (IF a % 2 = 1 \/ b % 2 = 1 THEN 1 ELSE 0) + 2 * OrBits(a \div 2, b \div 2)

\* The numeric group of the elements from position 3g + 1 on, absent ones
\* taken as zero.
B64NumericGroup(s, g) ==
    LET El(i) == IF i <= Len(s) THEN s[i] ELSE 0
    IN OrBits(El(3 * g + 1) * 65536, OrBits(El(3 * g + 2) * 256, El(3 * g + 3)))

\* The number of alphabet characters for n elements.
B64DataLen(n) == 4 * (n \div 3) + (IF n % 3 = 0 THEN 0 ELSE (n % 3) + 1)

\* C24: for every input of n elements and every alphabet s0..s4, _custom_b64
\* emits 4 alphabet characters per full 3-element group and 2 or 3 alphabet
\* characters for a 1- or 2-element remainder (numeric group zero-padded,
\* output truncated); the only output after those is a trailing run of "="
\* that brings the total length to a multiple of 4, so the output length is
\* 4 * ceil(n / 3) and every alphabet index used is in 0..63.
C24_CustomB64Shape ==
    pc = "done" =>
        LET n == Len(args.s)
            o == out[1].val
            table == tables._ABOGUS_STR[args.table_key]
        IN /\ Len(o) = 4 * ((n + 2) \div 3)
           /\ Len(o) % 4 = 0
           /\ \A i \in 1..B64DataLen(n) :
                 LET idx == (B64NumericGroup(args.s, (i - 1) \div 4)
                                \div Pow2(18 - 6 * ((i - 1) % 4))) % 64
                 IN idx \in 0..63 /\ idx + 1 <= Len(table) /\ o[i] = table[idx + 1]
           /\ \A i \in (B64DataLen(n) + 1)..Len(o) : o[i] = 61
           /\ IsBytes(args.s) => o = Rfc4648(args.s, SubSeq(table, 1, 64))

\* The claim's cases: a 1-element and a 2-element remainder whose numeric
\* group has bits below the characters emitted, and elements above 255.
C24_Witness ==
    /\ pc = "done"
    /\ Len(args.s) \in {4, 5}
    /\ args.s[Len(args.s)] > 255
    /\ args.s[Len(args.s)] % 16 # 0
    /\ args.table_key = "s4"
    /\ PadLen(out[1].val) = 3 - (Len(args.s) % 3)

(***************************************************************************)
(* SpecTrending: calls of _cached_trending(platform, fetch_fn) for two     *)
(* platforms, time passing between the calls and while fetch_fn runs.      *)
(* out keeps one record per call.                                          *)
(***************************************************************************)
MaxTrendingCalls == 3

TrendingPlatforms == {"weibo", "zhihu"}

\* Seconds that pass between two calls (or none), and while fetch_fn runs.
TrendingTicks == {1, 299, 300}
TrendingFetchTime == {0, 1}

TrendingInit ==
    /\ pc = "idle"
    /\ args = <<>>
    /\ out = <<>>
    /\ SM3_IV = _SM3_IV
    /\ ab = NoSigner
    /\ frames = NoFrames
    /\ tables = ModuleTables
    /\ _trending_cache = NoEntries
    /\ _last_request = NoEntries
    /\ _client_pool = NoEntries
    /\ clients = <<>>
    /\ flock = NoLock
    /\ _cookie_cache = NoEntries
    /\ fs = NoFile
    /\ cm = <<>>
    /\ mrc_e = <<>>
    /\ clock = 1000
    /\ rng = NoRng

\* _cached_trending(platform, fetch_fn): fetch_fn returns the list [n] on
\* its n-th call, or raises; it runs for some time.
TrendingCall(platform, fetch, fetch_time) ==
    /\ pc \in {"idle", "ticked"}
    /\ Len(out) < MaxTrendingCalls
    /\ LET r == _cached_trending(_trending_cache, clock, platform, fetch)
       IN /\ _trending_cache' = r.cache
          /\ out' = Append(out, [platform |-> platform, now |-> clock,
                                 fetched |-> r.fetched, result |-> r.result])
          /\ clock' = IF r.fetched = 1 THEN clock + fetch_time ELSE clock
    /\ pc' = "idle"
    /\ UNCHANGED <<args, SM3_IV, ab, rng, mrc_e, frames, tables, fs, cm,
                   _last_request, _client_pool, clients, flock, _cookie_cache>>

\* Time passes between two calls.
TrendingClockTick ==
    /\ pc = "idle"
    /\ Len(out) < MaxTrendingCalls
    /\ \E d \in TrendingTicks : clock' = clock + d
    /\ pc' = "ticked"
    /\ UNCHANGED <<args, out, SM3_IV, ab, rng, mrc_e, frames, tables, fs, cm,
                   _trending_cache, _last_request, _client_pool, clients, flock, _cookie_cache>>

TrendingNext ==
    \/ \E platform \in TrendingPlatforms, fetch_time \in TrendingFetchTime :
          \E fetch \in {Ret(<<Len(out) + 1>>), Raise("ConnectError")} :
             TrendingCall(platform, fetch, fetch_time)
    \/ TrendingClockTick

SpecTrending == TrendingInit /\ [][TrendingNext]_vars

\* What a step that is a call of _cached_trending does, c being the call's
\* record.
TrendingCallStep(c) ==
    LET p == c.platform
        Stored == p \in DOMAIN _trending_cache
        Young == Stored /\ clock - _trending_cache[p].ts < 300
    IN /\ c.now = clock
       /\ Young => /\ c.fetched = 0
                   /\ c.result = Ret(_trending_cache[p].data)
                   /\ _trending_cache' = _trending_cache
       /\ ~Young => /\ c.fetched = 1
                    /\ Returned(c.result) =>
                          /\ p \in DOMAIN _trending_cache'
                          /\ _trending_cache'[p] = [ts |-> clock, data |-> c.result.val]
                    /\ ~Returned(c.result) => _trending_cache' = _trending_cache
       /\ \A q \in TrendingPlatforms \ {p} :
             /\ (q \in DOMAIN _trending_cache') = (q \in DOMAIN _trending_cache)
             /\ q \in DOMAIN _trending_cache => _trending_cache'[q] = _trending_cache[q]

\* C25: trending cache TTL: if _cached_trending stored data for a platform
\* at time t, any later call for that platform at time t' with t' - t < 300
\* returns the stored data without invoking fetch_fn; a call with
\* t' - t >= 300 (or with no entry) invokes fetch_fn exactly once, stores its
\* result under time t' and returns it; entries of other platforms are never
\* changed, and when fetch_fn raises the existing entry is left as it was.
C25_TrendingCacheTtl ==
    [][/\ Len(out') = Len(out) + 1 => TrendingCallStep(out'[Len(out')])
       /\ Len(out') = Len(out) => _trending_cache' = _trending_cache]_vars

\* The claim's cases: a fetch stored at time t while fetch_fn ran for a
\* second, a call for the other platform, then a call 299 seconds after t
\* that is answered from the cache; and a call 300 seconds after t that
\* fetches again.
C25_Witness ==
    /\ Len(out) = 3
    /\ out[1].platform = out[3].platform /\ out[2].platform # out[1].platform
    /\ out[1].fetched = 1 /\ Returned(out[1].result)
    /\ out[3].now - out[1].now = 299
    /\ out[3].fetched = 0 /\ out[3].result = out[1].result

C25_WitnessExpired ==
    /\ Len(out) = 2
    /\ out[1].platform = out[2].platform
    /\ out[1].fetched = 1 /\ Returned(out[1].result)
    /\ out[2].now - out[1].now = 300
    /\ out[2].fetched = 1 /\ out[2].result = Ret(<<2>>)
    /\ _trending_cache[out[2].platform] = [ts |-> out[2].now, data |-> <<2>>]

(***************************************************************************)
(* SpecRate: calls of _rate_limit(platform, min_interval) for two          *)
(* platforms.  Times are tenths of a second; the clock advances while a    *)
(* call sleeps, by the time slept, and between calls.                      *)
(***************************************************************************)
MaxRateCalls == 3

RatePlatforms == {"t", "u"}

\* min_interval: the default 0.5 s, 2 s
RateIntervals == {5, 20}

\* Tenths of a second that pass between two calls (or none); how much later
\* than asked sleep returns.
RateTicks == {1, 5}
RateLate == {0, 1}

\* After import (no request recorded), or as the test sets it up:
\* _last_request["t"] = 0.0 and the clock at 0.1.
RateInit ==
    /\ pc = "idle"
    /\ args = <<>>
    /\ out = <<>>
    /\ SM3_IV = _SM3_IV
    /\ ab = NoSigner
    /\ frames = NoFrames
    /\ tables = ModuleTables
    /\ _trending_cache = NoEntries
    /\ \/ _last_request = NoEntries /\ clock = 17000
       \/ _last_request = DictSet(NoEntries, "t", 0) /\ clock = 1
    /\ _client_pool = NoEntries
    /\ clients = <<>>
    /\ flock = NoLock
    /\ _cookie_cache = NoEntries
    /\ fs = NoFile
    /\ cm = <<>>
    /\ mrc_e = <<>>
    /\ rng = NoRng

\* _rate_limit(platform, min_interval)
RateLimitCall(platform, min_interval, late) ==
    /\ pc \in {"idle", "ticked"}
    /\ Len(out) < MaxRateCalls
    /\ LET r == _rate_limit(_last_request, clock, platform, min_interval, late)
       IN /\ _last_request' = r.last_request
          /\ clock' = r.recorded
          /\ out' = Append(out, [platform |-> platform, min_interval |-> min_interval,
                                 now |-> clock, slept |-> r.slept,
                                 returned |-> r.recorded])
    /\ pc' = "idle"
    /\ UNCHANGED <<args, SM3_IV, ab, rng, mrc_e, frames, tables, fs, cm,
                   _trending_cache, _client_pool, clients, flock, _cookie_cache>>

\* Time passes between two calls.
RateClockTick ==
    /\ pc = "idle"
    /\ Len(out) < MaxRateCalls
    /\ \E d \in RateTicks : clock' = clock + d
    /\ pc' = "ticked"
    /\ UNCHANGED <<args, out, SM3_IV, ab, rng, mrc_e, frames, tables, fs, cm,
                   _trending_cache, _last_request, _client_pool, clients, flock, _cookie_cache>>

RateNext ==
    \/ \E platform \in RatePlatforms, min_interval \in RateIntervals, late \in RateLate :
          RateLimitCall(platform, min_interval, late)
    \/ RateClockTick

SpecRate == RateInit /\ [][RateNext]_vars

\* What a step that is a call of _rate_limit does, c being the call's record.
RateCallStep(c) ==
    LET p == c.platform
        last == IF p \in DOMAIN _last_request THEN _last_request[p] ELSE 0
        due == c.min_interval - (clock - last)
    IN /\ c.now = clock
       /\ due > 0 => c.slept = <<due>> /\ clock' >= clock + due
       /\ due <= 0 => c.slept = <<>> /\ clock' = clock
       /\ p \in DOMAIN _last_request' /\ _last_request'[p] = clock'
       /\ c.returned = clock'
       /\ \A q \in RatePlatforms \ {p} :
             /\ (q \in DOMAIN _last_request') = (q \in DOMAIN _last_request)
             /\ q \in DOMAIN _last_request => _last_request'[q] = _last_request[q]

\* C26: rate limit: a call _rate_limit(p, d) made at time now, with the
\* previous request of platform p recorded at time last, sleeps exactly
\* max(0, d - (now - last)) and does not sleep when that is 0, then records
\* the current time for p; so, with a clock that advances by the slept
\* amount, two consecutive returns of _rate_limit for the same platform are
\* at least d apart, and the recorded times of other platforms are unchanged.
C26_RateLimit ==
    [][/\ Len(out') = Len(out) + 1 => RateCallStep(out'[Len(out')])
       /\ Len(out') = Len(out) => _last_request' = _last_request
       /\ \A i, j \in 1..Len(out') :
             (/\ i < j
              /\ out'[i].platform = out'[j].platform
              /\ \A k \in (i + 1)..(j - 1) : out'[k].platform # out'[i].platform)
                 => out'[j].returned - out'[i].returned >= out'[j].min_interval]_vars

\* The claim's case: a call for platform t, a call for platform u, and 0.1 s
\* after the first return a call for t with the default interval, which
\* sleeps 0.4 s; the time recorded for u is unchanged.
C26_Witness ==
    /\ Len(out) = 3
    /\ out[1].platform = "t" /\ out[2].platform = "u" /\ out[3].platform = "t"
    /\ out[3].min_interval = 5
    /\ out[3].now - out[1].returned = 1
    /\ out[3].slept = <<4>>
    /\ out[3].returned - out[1].returned = 5
    /\ _last_request["u"] = out[2].returned

(***************************************************************************)
(* SpecRetry: one call of _request_with_retry(client, method, url,         *)
(* platform).  A step is one pass of the loop: _rate_limit, the request,   *)
(* the status check and the handler; the server's reply to each request is *)
(* chosen freely.  Times are tenths of a second.  frames keeps the call's  *)
(* locals and a log of the requests issued and of the calls of sleep.      *)
(***************************************************************************)
\* What a request can meet: a response with a status, or an exception.
RetryReplies ==
    {[kind |-> "response", status |-> st, exc |-> "None"] : st \in {200, 429, 500, 404}}
        \cup {[kind |-> "error", status |-> 0, exc |-> e] :
                 e \in {"ConnectError", "ReadTimeout", "DecodingError"}}

RetryInit ==
    /\ pc = "attempt"
    /\ args = [platform |-> "weibo"]
    /\ out = <<>>
    /\ SM3_IV = _SM3_IV
    /\ ab = NoSigner
    /\ frames = <<[attempt |-> 0, last_exc |-> Ret(<<>>), requests |-> <<>>, sleeps |-> <<>>]>>
    /\ tables = ModuleTables
    /\ _trending_cache = NoEntries
    /\ clock = 17000
    /\ _last_request \in {NoEntries, DictSet(NoEntries, "weibo", 16998)}
    /\ _client_pool = NoEntries
    /\ clients = <<>>
    /\ flock = NoLock
    /\ _cookie_cache = NoEntries
    /\ fs = NoFile
    /\ cm = <<>>
    /\ mrc_e = <<>>
    /\ rng = NoRng

\* One pass of "for attempt in range(MAX_RETRIES)": lines 279-296.
RetryAttempt(reply) ==
    /\ pc = "attempt"
    /\ frames[1].attempt < MAX_RETRIES
    /\ LET f == frames[1]
           rl == _rate_limit(_last_request, clock, args.platform, 5, 0)
           r == HttpxRequest(reply)
           h == _request_with_retry_except(r, f.attempt)
       IN /\ _last_request' = rl.last_request
          /\ IF Returned(r)
             THEN /\ out' = <<r>>
                  /\ pc' = "returned"
                  /\ clock' = rl.recorded
                  /\ frames' = <<[f EXCEPT !.requests = Append(@, reply),
                                           !.sleeps = @ \o rl.slept]>>
             ELSE IF h.caught
             THEN /\ out' = out
                  /\ pc' = IF f.attempt + 1 < MAX_RETRIES THEN "attempt" ELSE "exhausted"
                  /\ clock' = rl.recorded + 10 * h.wait
                  /\ frames' = <<[f EXCEPT !.requests = Append(@, reply),
                                           !.sleeps = @ \o rl.slept \o <<10 * h.wait>>,
                                           !.last_exc = r,
                                           !.attempt = @ + 1]>>
             ELSE /\ out' = <<r>>
                  /\ pc' = "raised"
                  /\ clock' = rl.recorded
                  /\ frames' = <<[f EXCEPT !.requests = Append(@, reply),
                                           !.sleeps = @ \o rl.slept]>>
    /\ UNCHANGED <<args, SM3_IV, ab, rng, mrc_e, tables, fs, cm,
                   _trending_cache, _client_pool, clients, flock, _cookie_cache>>

\* Line 297: raise last_exc or Exception(...)
RetryRaiseLast ==
    /\ pc = "exhausted"
    /\ out' = <<IF Returned(frames[1].last_exc) THEN Raise("Exception") ELSE frames[1].last_exc>>
    /\ pc' = "raised"
    /\ UNCHANGED <<args, SM3_IV, ab, clock, rng, mrc_e, frames, tables, fs, cm,
                   _trending_cache, _last_request, _client_pool, clients, flock, _cookie_cache>>

RetryNext == (\E reply \in RetryReplies : RetryAttempt(reply)) \/ RetryRaiseLast

SpecRetry == RetryInit /\ [][RetryNext]_vars

\* A request returns or raises within its timeout and a sleep ends, so a
\* call that can take a step does take it.
SpecRetryFair == SpecRetry /\ WF_vars(RetryNext)

\* The reply asks for another try: a transport or timeout error, or a 429.
RetryReplyRetried(reply) ==
    \/ reply.kind = "error" /\ reply.exc \in {"ConnectError", "ReadTimeout"}
    \/ reply.kind = "response" /\ reply.status = 429

\* The exception that a reply makes the pass raise.
RetryReplyError(reply) ==
    IF reply.kind = "error" THEN Raise(reply.exc)
    ELSE [exc |-> "HTTPStatusError", val |-> reply.status]

\* The seconds slept after the reply of pass number attempt (from 0).
RetryBackoff(reply, attempt) ==
    IF reply.kind = "error" THEN 2 ^ attempt ELSE 2 ^ (attempt + 1)

RetrySafe ==
    LET reqs == frames[1].requests
        n == Len(reqs)
        \* the sleeps of the handlers: those of a second or more
        backoffs == SelectSeq(frames[1].sleeps, LAMBDA w : w >= 10)
    IN /\ n <= MAX_RETRIES /\ MAX_RETRIES = 3
       /\ \A i \in 1..(n - 1) : RetryReplyRetried(reqs[i])
       /\ Len(backoffs) = Cardinality({i \in 1..n : RetryReplyRetried(reqs[i])})
       /\ \A i \in 1..Len(backoffs) : backoffs[i] = 10 * RetryBackoff(reqs[i], i - 1)
       /\ pc = "returned" <=> (n > 0 /\ reqs[n].kind = "response" /\ reqs[n].status = 200)
       /\ pc = "returned" => out = <<Ret(200)>>
       /\ (n > 0 /\ ~RetryReplyRetried(reqs[n]) /\ pc # "returned")
             => (pc = "raised" /\ out = <<RetryReplyError(reqs[n])>>)
       /\ pc = "raised" => (n > 0 /\ out = <<RetryReplyError(reqs[n])>>)
       /\ (pc = "raised" /\ RetryReplyRetried(reqs[n])) => n = MAX_RETRIES
       /\ pc \in {"attempt", "exhausted"} => out = <<>>

RetryDone == pc \in {"returned", "raised"}

\* C27: _request_with_retry always terminates after at most MAX_RETRIES = 3
\* requests: it returns the first response whose status check succeeds and
\* issues no request after it; it retries only after a transport/timeout
\* error (backoff 2^attempt seconds) or an HTTP 429 (backoff 2^(attempt+1)
\* seconds); any other HTTP status error propagates on its first occurrence
\* without a retry; and after three failed attempts it raises the error of
\* the last attempt.
C27_RetryTerminates == []RetrySafe /\ <>RetryDone

\* The claim's case: a timeout, a 429 and a transport error, slept on for
\* 1, 4 and 4 seconds, after which the transport error is raised.
C27_Witness ==
    /\ pc = "raised"
    /\ Len(frames[1].requests) = 3
    /\ frames[1].requests[1].exc = "ReadTimeout"
    /\ frames[1].requests[2].status = 429
    /\ frames[1].requests[3].exc = "ConnectError"
    /\ SelectSeq(frames[1].sleeps, LAMBDA w : w >= 10) = <<10, 40, 40>>
    /\ out = <<Raise("ConnectError")>>

(***************************************************************************)
(* SpecPool: calls of _get_client, httpx.Client() for an ad-hoc client,    *)
(* _release_client, _close_clients and ClientPool's close and context      *)
(* exit, in any order.  clients holds every client object made; a client   *)
(* is named by its place there.  out keeps one record per call.            *)
(***************************************************************************)
MaxPoolCalls == 4

PoolPlatforms == {<<119, 101, 105, 98, 111>>, <<>>}

\* _cookies_store: no cookie file; or one in auth.py's format for weibo
PoolStores ==
    {PyDict(<<>>),
     PyDict(<<[key |-> <<119, 101, 105, 98, 111>>,
               val |-> CookieEntry(<<[key |-> <<83, 85, 66>>, val |-> PyStr(<<97, 98, 99>>)]>>)]>>)}

PoolInit ==
    /\ pc = "running"
    /\ args \in {[_cookies_store |-> st] : st \in PoolStores}
    /\ out = <<>>
    /\ SM3_IV = _SM3_IV
    /\ ab = NoSigner
    /\ frames = NoFrames
    /\ tables = ModuleTables
    /\ _trending_cache = NoEntries
    /\ _last_request = NoEntries
    /\ _client_pool = NoEntries
    /\ clients = <<>>
    /\ flock = NoLock
    /\ _cookie_cache = NoEntries
    /\ fs = NoFile
    /\ cm = <<>>
    /\ mrc_e = <<>>
    /\ clock = NoClock
    /\ rng = NoRng

PoolCall(rec) == /\ Len(out) < MaxPoolCalls
                 /\ pc = "running"
                 /\ out' = Append(out, rec)
                 /\ UNCHANGED <<pc, args, SM3_IV, ab, clock, rng, mrc_e, frames, tables, fs, cm,
                                _trending_cache, _last_request, flock>>

\* _get_client(platform, mobile)
GetClient(platform, mobile) ==
    LET r == _get_client(_client_pool, clients, args._cookies_store, _cookie_cache,
                         platform, mobile)
    IN /\ _client_pool' = r.pool
       /\ clients' = r.objs
       /\ _cookie_cache' = r.cache
       /\ PoolCall([op |-> "_get_client", key |-> <<platform, mobile>>, client |-> r.client])

\* c = httpx.Client(): a client of the caller's own
AdHocClient ==
    /\ clients' = Append(clients, HttpxClient(TRUE, PyNone))
    /\ PoolCall([op |-> "httpx.Client", key |-> <<>>, client |-> Len(clients) + 1])
    /\ UNCHANGED <<_client_pool, _cookie_cache>>

\* _release_client(client), for a client made before
ReleaseClient(client) ==
    /\ client \in 1..Len(clients)
    /\ clients' = _release_client(_client_pool, clients, client)
    /\ PoolCall([op |-> "_release_client", key |-> <<>>, client |-> client])
    /\ UNCHANGED <<_client_pool, _cookie_cache>>

\* _close_clients()
CloseClients ==
    /\ clients' = _close_clients(_client_pool, clients)
    /\ PoolCall([op |-> "_close_clients", key |-> <<>>, client |-> 0])
    /\ UNCHANGED <<_client_pool, _cookie_cache>>

\* ClientPool().close()
ClientPoolClose ==
    /\ clients' = _close_clients(_client_pool, clients)
    /\ PoolCall([op |-> "ClientPool.close", key |-> <<>>, client |-> 0])
    /\ UNCHANGED <<_client_pool, _cookie_cache>>

\* with ClientPool(): ... left
ClientPoolExit ==
    /\ clients' = _close_clients(_client_pool, clients)
    /\ PoolCall([op |-> "ClientPool.__exit__", key |-> <<>>, client |-> 0])
    /\ UNCHANGED <<_client_pool, _cookie_cache>>

PoolNext ==
    \/ \E platform \in PoolPlatforms, mobile \in BOOLEAN : GetClient(platform, mobile)
    \/ AdHocClient
    \/ \E client \in 1..MaxPoolCalls : ReleaseClient(client)
    \/ CloseClients
    \/ ClientPoolClose
    \/ ClientPoolExit

SpecPool == PoolInit /\ [][PoolNext]_vars

\* The client is a value of the pool.
Pooled(client) == \E k \in DOMAIN _client_pool : _client_pool[k] = client

\* C28: _release_client closes a client if and only if that client is not
\* held in the client pool: an ad-hoc client is closed after the call, a
\* pooled client is left open and stays in the pool, and the pool's contents
\* are unchanged by the call.
C28_ReleaseClosesOnlyAdHoc ==
    [][(Len(out') = Len(out) + 1 /\ out'[Len(out')].op = "_release_client") =>
          LET c == out'[Len(out')].client
          IN /\ _client_pool' = _client_pool
             /\ Len(clients') = Len(clients)
             /\ ~Pooled(c) => clients'[c].closed
             /\ Pooled(c) => clients'[c] = clients[c]
             /\ \A d \in 1..Len(clients) : d # c => clients'[d] = clients[d]]_vars

\* The claim's cases: a pooled client and an ad-hoc client, both released;
\* the pooled one is open and in the pool, the ad-hoc one is closed.
C28_Witness ==
    /\ Len(out) = 4
    /\ out[1].op = "_get_client" /\ out[2].op = "httpx.Client"
    /\ out[3].op = "_release_client" /\ out[3].client = 1
    /\ out[4].op = "_release_client" /\ out[4].client = 2
    /\ ~clients[1].closed /\ Pooled(1)
    /\ clients[2].closed /\ ~Pooled(2)

\* C29: pooled clients stay open until process exit: after any sequence of
\* _get_client, _release_client, _close_clients and ClientPool close /
\* context-exit operations, every client that _get_client returns is open,
\* and _get_client returns the same client instance for the same
\* (platform, mobile) key.
C29_PooledClientsStayOpen ==
    \A i \in 1..Len(out) :
        out[i].op = "_get_client" =>
            /\ (i = Len(out) => ~clients[out[i].client].closed)
            /\ \A j \in 1..Len(out) :
                  (out[j].op = "_get_client" /\ out[j].key = out[i].key)
                      => out[j].client = out[i].client

\* The same without ClientPool's close and context exit and without
\* _close_clients: this much holds.
C29_PooledClientsStayOpenUntilClosed ==
    (\A i \in 1..Len(out) :
        out[i].op \notin {"_close_clients", "ClientPool.close", "ClientPool.__exit__"})
        => C29_PooledClientsStayOpen

(***************************************************************************)
(* SpecLock: one process runs CookieManager._save while another runs       *)
(* CookieManager._load on the same cookie file.  A step is one statement   *)
(* that touches the file or its lock.  flock(LOCK_EX) waits while any lock *)
(* is held, flock(LOCK_SH) while an exclusive lock is held.  The text      *)
(* written is shorter than io.DEFAULT_BUFFER_SIZE (8192), so f.write       *)
(* leaves it in the file object's buffer and it reaches the file when the  *)
(* with statement closes the file.  frames keeps each process's locals.    *)
(***************************************************************************)
\* The store in the file before the save (or no file), and the saver's
\* _data.
LockStores ==
    {PyDict(<<[key |-> <<119, 101, 105, 98, 111>>,
               val |-> CookieEntry(<<[key |-> <<83, 85, 66>>, val |-> PyStr(v)]>>)]>>) :
        v \in {<<111, 108, 100>>, <<110, 101, 119>>, <<20013>>}}

LockInit ==
    /\ pc = [saver |-> "open", loader |-> "exists"]
    /\ args \in {[old |-> o, new |-> n, file |-> f] :
                    o \in LockStores, n \in LockStores, f \in BOOLEAN}
    /\ fs = IF args.file THEN _save(args.old).file ELSE NoFile
    /\ out = <<>>
    /\ SM3_IV = _SM3_IV
    /\ ab = NoSigner
    /\ frames = [saver |-> [buffer |-> <<>>], loader |-> [result |-> Ret(PyNone)]]
    /\ tables = ModuleTables
    /\ _trending_cache = NoEntries
    /\ _last_request = NoEntries
    /\ _client_pool = NoEntries
    /\ clients = <<>>
    /\ flock = NoLock
    /\ _cookie_cache = NoEntries
    /\ cm = <<>>
    /\ mrc_e = <<>>
    /\ clock = NoClock
    /\ rng = NoRng

\* Line 94: open(self.COOKIE_FILE, "w", encoding="utf-8") empties the file
SaveOpen ==
    /\ pc.saver = "open"
    /\ fs' = [exists |-> TRUE, bytes |-> <<>>]
    /\ pc' = [pc EXCEPT !.saver = "flock"]
    /\ UNCHANGED <<args, out, SM3_IV, ab, clock, rng, mrc_e, frames, tables, cm,
                   _trending_cache, _last_request, _client_pool, clients, flock,
                   _cookie_cache>>

\* Line 95: fcntl.flock(f.fileno(), fcntl.LOCK_EX)
SaveLock ==
    /\ pc.saver = "flock"
    /\ flock = {}
    /\ flock' = {[who |-> "saver", mode |-> "LOCK_EX"]}
    /\ pc' = [pc EXCEPT !.saver = "write"]
    /\ UNCHANGED <<args, out, SM3_IV, ab, clock, rng, mrc_e, frames, tables, fs, cm,
                   _trending_cache, _last_request, _client_pool, clients, _cookie_cache>>

\* Line 97: f.write(json.dumps(self._data, ensure_ascii=False, indent=2))
SaveWrite ==
    /\ pc.saver = "write"
    /\ frames' = [frames EXCEPT !.saver.buffer = _save(args.new).file.bytes]
    /\ pc' = [pc EXCEPT !.saver = "unlock"]
    /\ UNCHANGED <<args, out, SM3_IV, ab, clock, rng, mrc_e, tables, fs, cm,
                   _trending_cache, _last_request, _client_pool, clients, flock,
                   _cookie_cache>>

\* Line 99: fcntl.flock(f.fileno(), fcntl.LOCK_UN)
SaveUnlock ==
    /\ pc.saver = "unlock"
    /\ flock' = flock \ {[who |-> "saver", mode |-> "LOCK_EX"]}
    /\ pc' = [pc EXCEPT !.saver = "close"]
    /\ UNCHANGED <<args, out, SM3_IV, ab, clock, rng, mrc_e, frames, tables, fs, cm,
                   _trending_cache, _last_request, _client_pool, clients, _cookie_cache>>

\* The end of the with statement of line 94: the file is closed, which
\* writes the buffer to it.
SaveClose ==
    /\ pc.saver = "close"
    /\ fs' = [exists |-> TRUE, bytes |-> frames.saver.buffer]
    /\ pc' = [pc EXCEPT !.saver = "done"]
    /\ UNCHANGED <<args, out, SM3_IV, ab, clock, rng, mrc_e, frames, tables, cm,
                   _trending_cache, _last_request, _client_pool, clients, flock,
                   _cookie_cache>>

\* Lines 81 and 91: if self.COOKIE_FILE.exists(), else return {}
LoadExists ==
    /\ pc.loader = "exists"
    /\ IF fs.exists
       THEN pc' = [pc EXCEPT !.loader = "flock"] /\ cm' = cm
       ELSE pc' = [pc EXCEPT !.loader = "done"] /\ cm' = <<PyDict(<<>>)>>
    /\ UNCHANGED <<args, out, SM3_IV, ab, clock, rng, mrc_e, frames, tables, fs,
                   _trending_cache, _last_request, _client_pool, clients, flock,
                   _cookie_cache>>

\* Lines 83-84: open(self.COOKIE_FILE, "r", ...) and flock(LOCK_SH)
LoadLock ==
    /\ pc.loader = "flock"
    /\ \A l \in flock : l.mode # "LOCK_EX"
    /\ flock' = flock \cup {[who |-> "loader", mode |-> "LOCK_SH"]}
    /\ pc' = [pc EXCEPT !.loader = "read"]
    /\ UNCHANGED <<args, out, SM3_IV, ab, clock, rng, mrc_e, frames, tables, fs, cm,
                   _trending_cache, _last_request, _client_pool, clients, _cookie_cache>>

\* Line 86: json.loads(f.read() or "{}")
LoadRead ==
    /\ pc.loader = "read"
    /\ frames' = [frames EXCEPT !.loader.result =
                      IF Returned(Utf8Strict(fs.bytes))
                      THEN _load_text(Utf8Strict(fs.bytes).val)
                      ELSE Utf8Strict(fs.bytes)]
    /\ pc' = [pc EXCEPT !.loader = "unlock"]
    /\ UNCHANGED <<args, out, SM3_IV, ab, clock, rng, mrc_e, tables, fs, cm,
                   _trending_cache, _last_request, _client_pool, clients, flock,
                   _cookie_cache>>

\* Lines 87-90: finally flock(LOCK_UN); the value is returned, or the
\* handler returns {}
LoadUnlock ==
    /\ pc.loader = "unlock"
    /\ flock' = flock \ {[who |-> "loader", mode |-> "LOCK_SH"]}
    /\ IF Returned(_load_except(frames.loader.result))
       THEN /\ cm' = <<_load_except(frames.loader.result).val>>
            /\ pc' = [pc EXCEPT !.loader = "done"]
            /\ out' = out
       ELSE /\ cm' = cm
            /\ pc' = [pc EXCEPT !.loader = "raised"]
            /\ out' = <<_load_except(frames.loader.result)>>
    /\ UNCHANGED <<args, SM3_IV, ab, clock, rng, mrc_e, frames, tables, fs,
                   _trending_cache, _last_request, _client_pool, clients, _cookie_cache>>

LockNext ==
    \/ SaveOpen \/ SaveLock \/ SaveWrite \/ SaveUnlock \/ SaveClose
    \/ LoadExists \/ LoadLock \/ LoadRead \/ LoadUnlock

SpecLock == LockInit /\ [][LockNext]_vars

\* The store before the save: what the file held, {} without a file.
LockOldStore == IF args.file THEN args.old ELSE PyDict(<<>>)

\* C30: cookie file locking gives readers a consistent view: when one
\* process runs CookieManager._save while another runs CookieManager._load
\* on the same file, in every interleaving the loader obtains either the
\* complete contents from before the save or the complete newly saved
\* contents, never an empty or partial store.
C30_LoaderSeesOldOrNew ==
    /\ pc.loader # "raised"
    /\ pc.loader = "done" => cm[1] \in {LockOldStore, args.new}

\* What does hold: the loader obtains the old store, the new one, or {}.
C30_LoaderSeesOldNewOrEmpty ==
    /\ pc.loader # "raised"
    /\ pc.loader = "done" => cm[1] \in {LockOldStore, args.new, PyDict(<<>>)}

\* The two locks are never held together.
C30_LocksExclude ==
    \A l \in flock : l.mode = "LOCK_EX" => flock = {l}

=============================================================================
